---- MODULE Spec2Model ----
(***************************************************************************)
(* Model of the data-access and pagination engine of the Synthesis Assets  *)
(* Explorer extension:                                                     *)
(*   - SynthesisAssetsWindow (window.py): the lazy-load / pagination state *)
(*     of the asset grid, the debounced search, the scroll-triggered       *)
(*     continuation and the handling of item-list responses;               *)
(*   - DataManager (data_manager.py): the shared aiohttp session guarded   *)
(*     by an asyncio.Lock.                                                 *)
(*                                                                         *)
(* Scheduling follows asyncio: UI callbacks and timer callbacks run to     *)
(* completion; a coroutine handed to asyncio.ensure_future starts only     *)
(* when the event loop reaches it (variable ready, first in first out);    *)
(* a coroutine that awaits the gateway is suspended until its response     *)
(* arrives, and then resumes behind every coroutine that was ready when    *)
(* it was suspended (field behind of a request in flight counts them).     *)
(***************************************************************************)
EXTENDS Integers, Sequences, FiniteSets, TLC

(***************************************************************************)
(* Bounds of the model (not program constants).                            *)
(***************************************************************************)
\* most coroutines waiting in the event loop's ready queue
MaxReady == 2
\* most item-list requests in flight at once
MaxInflight == 2
\* most call_later callbacks pending at once
MaxTimers == 2
\* most ClientSession objects created
MaxSessions == 3
\* flows of control that use the DataManager concurrently
NumFlows == 2
\* most keyword changes counted in one burst
MaxBurst == 2
\* close calls in a row that are counted
MaxCloses == 2
\* most records in a category payload, over all levels
MaxRecords == 4
\* most code points in a text given to encrypt_aes
MaxChars == 4

(***************************************************************************)
(* Program constants.                                                      *)
(***************************************************************************)
\* window.py:387  self._debounce_delay = 0.3 (seconds); time is counted in
\* steps of 0.15 s
DebounceDelay == 2
\* window.py:885  threshold = 0.8, in tenths
ScrollThreshold == 8
\* window.py:363  self._page_size = 60
PageSize == 60
\* aes.py:24  AES.block_size
BlockSize == 16

None == "None"

\* data_manager.py:147  self.session = None: no ClientSession object
NoSession == 0

\* data_manager.py:127  the lock is held by nobody
NoFlow == 0

\* An attribute that was never assigned, or a key that a JSON object does
\* not hold; an attribute or key holding v is <<v>>.
Unset == <<>>

\* data_manager.py:10-13
HTTP_SUCCESS == 200
BUSINESS_SUCCESS == 200
TOKEN_EXPIRED_CODE == 401
TOKEN_EXPIRED_MESSAGE == "Token has expired"

\* data_manager.py:231-233  the defaults of json_data.get
MissingCode == -1
UnknownError == "Unknown error"

\* A decoded JSON value, as far as the gateway looks at it: its kind and,
\* for a list of category records, the records (data_manager.py:297-302).
Object == [kind |-> "object", items |-> <<>>]
List(items) == [kind |-> "list", items |-> items]
NoneValue == [kind |-> "None", items |-> <<>>]

\* data_manager.py:254  the default of json_data.get("Result", {})
EmptyObject == [kind |-> "empty object", items |-> <<>>]

\* What the backend (or the network) does with one request.
\*   fault   "get_session": _get_session raises (data_manager.py:189);
\*           "send": session.request raises (data_manager.py:195)
\*   status  response.status
\*   body    "object": a JSON object with the four keys below;
\*           "content_type": response.json() raises ContentTypeError;
\*           "malformed": response.json() raises a decoding error;
\*           "not_object": valid JSON that is not an object (a list)
Faults == {"none", "get_session", "send"}
Statuses == {200, 204, 404}
Bodies == {"object", "content_type", "malformed", "not_object"}
ErrorCodes == {Unset, <<200>>, <<401>>, <<500>>}
StatusCodes == {Unset, <<200>>, <<500>>}
MessageCodes == {Unset, <<"msg">>}
Results ==
    {Unset, <<Object>>,
     <<List(<<[CategoryId |-> "A", IsSystem |-> TRUE],
              [CategoryId |-> "B", IsSystem |-> FALSE]>>)>>}

\* fields that are never looked at hold one fixed value
Canonical(r) ==
    /\ r.fault # "none" => r.status = 200 /\ r.body = "object"
    /\ (r.fault # "none" \/ r.status # 200 \/ r.body # "object") =>
           /\ r.ErrorCode = Unset
           /\ r.StatusCode = Unset
           /\ r.MessageCode = Unset
           /\ r.Result = Unset
    /\ r.status # 200 => r.body = "object"

Responses ==
    {r \in [fault : Faults, status : Statuses, body : Bodies,
            ErrorCode : ErrorCodes, StatusCode : StatusCodes,
            MessageCode : MessageCodes, Result : Results] : Canonical(r)}

NoResponse ==
    [fault |-> "none", status |-> 200, body |-> "object", ErrorCode |-> Unset,
     StatusCode |-> Unset, MessageCode |-> Unset, Result |-> Unset]

\* The outcome of a call: the exception class it raised ("none": it
\* returned), the exception it was raised from, the codes and message the
\* exception carries, the value returned, the HTTP requests sent, and
\* whether the expiry flags were written (data_manager.py:235-236).
Outcome(raised, cause, codes, msg, value, sends, expiry) ==
    [raised |-> raised, cause |-> cause, codes |-> codes, msg |-> msg,
     value |-> value, sends |-> sends, expiry |-> expiry]

Returns(value, sends) ==
    Outcome("none", "none", <<>>, "", value, sends, FALSE)

Raises(raised, cause, sends) ==
    Outcome(raised, cause, <<>>, "", NoneValue, sends, FALSE)

\* the last call of the gateway: what was called, with what, and its outcome
Call(op, asset_type_id, tab, url, header, check, resp, out) ==
    [op |-> op, asset_type_id |-> asset_type_id, tab |-> tab, url |-> url,
     header |-> header, check |-> check, resp |-> resp, out |-> out]

\* app_state.py:17, 22-29  the persisted settings before anything was saved:
\* settings.get gives None for each of the three keys
NoSettings == [username |-> None, password |-> None, remember_me |-> Unset]

NoCall ==
    Call("none", "", "", "", "", TRUE, NoResponse, Returns(NoneValue, 0))

\* window.py:34-90  the Ids of ASSET_TYPES
AssetTypeIds == {"SimReady", "Model", "_3dGS", "Robot", "Scene"}

\* window.py:320  self._asset_type_id_selected = ASSET_TYPES[0].get("Id")
FirstAssetTypeId == "SimReady"

\* Category ids of the tree shown to the user: the synthetic "All" entry
\* (window.py:1130-1140) and one category of the payload.
Categories == {"All", "A"}

\* Texts the user can leave in the search field; one carries white space.
Keywords == {"", " k"}

\* str.strip() on the texts above (window.py:776, 1382).
Strip(s) == IF s = " k" THEN "k" ELSE s

(***************************************************************************)
(* The backend's catalogue: what an item-list request                      *)
(* {CategoryId, Key, PageIndex} is answered with ({List, PageCount,        *)
(* Count}).  It is the environment of the program; the values make every   *)
(* branch of the "no more data" decision occur.                            *)
(***************************************************************************)
ApiPageCount(cid, key) ==
    CASE cid = "" /\ key = ""  -> 2
      [] cid = "A" /\ key = "" -> 1
      [] cid = "" /\ key = "k" -> 2
      [] OTHER                 -> 0

ApiCount(cid, key) ==
    CASE cid = "" /\ key = ""  -> 3
      [] cid = "A" /\ key = "" -> 1
      [] OTHER                 -> 0

ApiList(cid, key, page) ==
    CASE cid = "" /\ key = "" /\ page = 1  -> <<1, 2>>
      [] cid = "" /\ key = "" /\ page = 2  -> <<3>>
      [] cid = "A" /\ key = "" /\ page = 1 -> <<4>>
      [] OTHER                             -> <<>>

VARIABLES
    \* --- SynthesisAssetsWindow (window.py:320-387) ---
    asset_type_id_selected,     \* _asset_type_id_selected
    asset_category_id_selected, \* _asset_category_id_selected
    search_bar,                 \* text of _search_bar.model
    current_page_index,         \* _current_page_index
    total_pages_from_api,       \* _total_pages_from_api
    total_count_from_api,       \* _total_count_from_api
    is_loading_more,            \* _is_loading_more
    no_more_assets_to_load,     \* _no_more_assets_to_load
    all_loaded_asset_items,     \* _all_loaded_asset_items
    displayed_asset_items,      \* _displayed_asset_items
    error_msg,                  \* last message given to _update_grid_with_error
    search_timer_handle,        \* _search_timer_handle: None, pending or dead
    \* --- event loop ---
    timers,                     \* remaining delay of each pending call_later
    ready,                      \* coroutines scheduled and not started yet
    inflight,                   \* item-list requests sent and not answered
    \* --- DataManager (data_manager.py:126-127, 147) ---
    session,                    \* DataManager.session: NoSession or a session id
    closed,                     \* the ClientSession objects created: id -> closed
    session_lock,               \* _session_lock: NoFlow or the flow holding it
    lock_waiters,               \* the flows waiting for _session_lock, in order
    flow,                       \* each flow's position in _get_session / close
    \* --- history (not program state) ---
    since_key,                  \* time since the last keyword change (capped)
    burst,                      \* keyword changes, each less than the delay
                                \* after the one before, whose timer is to run
    seq,                        \* the run of sequential successful fetches
    acquired,                   \* sessions returned since the last close
    closes,                     \* close calls finished since a session was
                                \* last returned (capped)
    \* --- AppState (app_state.py:16-34, data_manager.py:235-236) ---
    token,                      \* APP_STATE.token
    is_token_expired,           \* APP_STATE.is_token_expired
    is_system_admin,            \* APP_STATE.is_system_admin
    user_info,                  \* APP_STATE.user_info
    username,                   \* APP_STATE.username
    password,                   \* APP_STATE.password
    remember_me,                \* APP_STATE.remember_me
    settings,                   \* the persisted settings of the three keys
    auth_op,                    \* history: the last writer of APP_STATE
    \* --- the last call of the gateway: its input and what came of it ---
    call,
    \* --- the category tree (tree_models.py:39-53) ---
    category_list,              \* the payload given to CategoryModel
    nodes,                      \* the CategoryItem objects, in order of creation
    \* --- the password cipher (aes.py) ---
    plaintext,                  \* the text given to encrypt_aes
    ciphertext_b64,             \* the text it returned, given to decrypt_aes
    decrypted,                  \* what decrypt_aes returned or raised
    \* --- the extension (extension.py:60-71) ---
    window_open                 \* on_shutdown has not cleaned the window up

pageVars == <<current_page_index, total_pages_from_api, total_count_from_api,
              is_loading_more, no_more_assets_to_load, all_loaded_asset_items,
              displayed_asset_items, error_msg>>
windowVars == <<asset_type_id_selected, asset_category_id_selected, search_bar,
                search_timer_handle>>
loopVars == <<timers, ready, inflight>>
sessionVars == <<session, closed, session_lock, lock_waiters, flow, acquired,
                 closes>>
credentialVars == <<user_info, username, password, remember_me, settings>>
authVars == <<token, is_token_expired, is_system_admin, credentialVars,
              auth_op>>
gatewayVars == <<authVars, call>>
treeVars == <<category_list, nodes>>
aesVars == <<plaintext, ciphertext_b64, decrypted>>
historyVars == <<since_key, burst, seq>>
vars == <<pageVars, windowVars, loopVars, sessionVars, historyVars,
          gatewayVars, treeVars, aesVars, window_open>>


(***************************************************************************)
(* Helpers on sequences.                                                   *)
(***************************************************************************)
RemoveAt(s, i) == SubSeq(s, 1, i - 1) \o SubSeq(s, i + 1, Len(s))

Min(a, b) == IF a < b THEN a ELSE b

Max(a, b) == IF a > b THEN a ELSE b

(***************************************************************************)
(* Entries of the event loop.                                              *)
(***************************************************************************)
\* A coroutine scheduled with asyncio.ensure_future and not started yet.
Task(t, cat, page) == [t |-> t, cat |-> cat, page |-> page]

\* window.py:1384-1391  params of the item-list request.  DataType is 1:
\* _is_system_admin stays False and the visibility tab stays "Public"
\* (window.py:321-322, 1367-1378).  behind: the coroutines ready to run when
\* the request was sent, which the event loop runs before the continuation.
Request(category_id, page_index, behind) ==
    [CategoryId  |-> IF category_id # "All" THEN category_id ELSE "",
     PageIndex   |-> page_index,
     PageSize    |-> PageSize,
     OrderByType |-> -1,
     Key         |-> Strip(search_bar),
     DataType    |-> 1,
     behind      |-> behind]

(***************************************************************************)
(* The pagination state as one value, so that a handler that calls         *)
(* another (the debounced search resets, then loads) composes.             *)
(***************************************************************************)
PageState ==
    [cur     |-> current_page_index,
     tp      |-> total_pages_from_api,
     tc      |-> total_count_from_api,
     loading |-> is_loading_more,
     nomore  |-> no_more_assets_to_load,
     all     |-> all_loaded_asset_items,
     disp    |-> displayed_asset_items,
     err     |-> error_msg,
     infl    |-> inflight,
     rdy     |-> ready]

Commit(s) ==
    /\ current_page_index' = s.cur
    /\ total_pages_from_api' = s.tp
    /\ total_count_from_api' = s.tc
    /\ is_loading_more' = s.loading
    /\ no_more_assets_to_load' = s.nomore
    /\ all_loaded_asset_items' = s.all
    /\ displayed_asset_items' = s.disp
    /\ error_msg' = s.err
    /\ inflight' = s.infl
    /\ ready' = s.rdy

\* window.py:1213-1233  _reset_pagination_state
reset_pagination_state(s, clear_all_local_data) ==
    [s EXCEPT !.cur = 1,
              !.tp = 1,
              !.loading = FALSE,
              !.nomore = FALSE,
              !.all = IF clear_all_local_data THEN <<>> ELSE @,
              !.disp = <<>>]

\* window.py:1349-1365  the asset type's configuration is present
ConfigOk(asset_type_id) == asset_type_id \in AssetTypeIds

\* _load_assets_for_category without the guard of window.py:1342-1344
load_without_guard(s, category_id, page_index, resolved) ==
    LET s1 == [s EXCEPT !.loading = TRUE, !.cur = page_index] IN
    IF ~resolved
    THEN [s1 EXCEPT !.err = "Failed to load assets", !.loading = FALSE]
    ELSE [s1 EXCEPT !.infl = Append(@, Request(category_id, page_index,
                                            Len(s.rdy)))]

\* window.py:1339-1406  _load_assets_for_category up to its await.
\* resolved: DataManager.get_asset_list found the asset type and sent the
\* request (data_manager.py:333); otherwise it returned None without sending
\* (data_manager.py:316-318) and assets_data.get raises at window.py:1408,
\* which the except and finally clauses (1486-1491) handle at once.
load_assets_for_category(s, category_id, page_index, resolved) ==
    IF s.loading
    THEN s
    ELSE LET s1 == [s EXCEPT !.loading = TRUE, !.cur = page_index] IN
         IF ~ConfigOk(asset_type_id_selected)
         THEN [s1 EXCEPT !.err = "Config error", !.loading = FALSE]
         ELSE IF ~resolved
              THEN [s1 EXCEPT !.err = "Failed to load assets",
                              !.loading = FALSE]
              ELSE [s1 EXCEPT !.infl = Append(@, Request(category_id, page_index,
                                                      Len(s.rdy)))]

\* What the awaited gateway call can end with: a result object, a result
\* object one of whose items has a UsdCurrentPath that is no string
\* (json.loads raises TypeError at window.py:1400), a result that is no
\* object, or one of the gateway's exceptions (data_manager.py:88-109).
GatewayErrors == {"HTTPException", "BusinessLogicException",
                  "DataParsingException", "DataManagerError", "AttributeError"}

Outcomes == {"ok", "bad_item"} \union GatewayErrors

\* window.py:1414-1416  Scene and _3dGS items are taken as they are
RawItems(asset_type_id) == asset_type_id = "Scene" \/ asset_type_id = "_3dGS"

\* window.py:1406-1484  the answer is a result object whose items are processed
Succeeds(outcome) ==
    /\ outcome \notin GatewayErrors
    /\ ~(outcome = "bad_item" /\ ~RawItems(asset_type_id_selected))

\* the comparison of window.py:1469 made strict
NoMoreAfter_strict(page_index, total_pages, total_count, nomore) ==
    IF page_index > total_pages \/ total_count <= 0 THEN TRUE ELSE nomore

\* window.py:1466-1472  "no more data" after a page was loaded
NoMoreAfter(page_index, total_pages, total_count, nomore) ==
    IF page_index >= total_pages \/ total_count <= 0 THEN TRUE ELSE nomore

\* the handling of an answer without the finally clause of window.py:1490-1491
\* on the failure paths
on_response_keeps_flag(s, req, outcome) ==
    LET items == ApiList(req.CategoryId, req.Key, req.PageIndex)
        tp == ApiPageCount(req.CategoryId, req.Key)
        tc == ApiCount(req.CategoryId, req.Key)
    IN  IF ~Succeeds(outcome)
        THEN [s EXCEPT !.err = "Failed to load assets"]
        ELSE [s EXCEPT !.tp = tp,
                       !.tc = tc,
                       !.all = @ \o items,
                       !.disp = IF req.PageIndex = 1 THEN items ELSE @ \o items,
                       !.nomore = NoMoreAfter(req.PageIndex, tp, tc, @),
                       !.loading = FALSE]

\* the handling of an answer that drops the answer to a request whose
\* category or keyword is no longer the window's
on_response_drops_superseded(s, req, outcome) ==
    LET items == ApiList(req.CategoryId, req.Key, req.PageIndex)
        tp == ApiPageCount(req.CategoryId, req.Key)
        tc == ApiCount(req.CategoryId, req.Key)
        cid == IF asset_category_id_selected # "All"
               THEN asset_category_id_selected ELSE ""
    IN  IF req.CategoryId # cid \/ req.Key # Strip(search_bar)
        THEN [s EXCEPT !.loading = FALSE]
        ELSE IF ~Succeeds(outcome)
        THEN [s EXCEPT !.err = "Failed to load assets", !.loading = FALSE]
        ELSE [s EXCEPT !.tp = tp,
                       !.tc = tc,
                       !.all = @ \o items,
                       !.disp = IF req.PageIndex = 1 THEN items ELSE @ \o items,
                       !.nomore = NoMoreAfter(req.PageIndex, tp, tc, @),
                       !.loading = FALSE]

\* window.py:1406-1491 with a failed fetch scheduled again from the except
\* clause
on_response_retries(s, req, outcome) ==
    LET items == ApiList(req.CategoryId, req.Key, req.PageIndex)
        tp == ApiPageCount(req.CategoryId, req.Key)
        tc == ApiCount(req.CategoryId, req.Key)
    IN  IF outcome \in GatewayErrors
        THEN [s EXCEPT !.err = "Failed to load assets", !.loading = FALSE,
                       !.rdy = Append(@, Task("load",
                                              IF req.CategoryId = "" THEN "All"
                                              ELSE req.CategoryId,
                                              req.PageIndex))]
        ELSE IF ~Succeeds(outcome)
        THEN [s EXCEPT !.tp = tp, !.tc = tc,
                       !.err = "Failed to load assets", !.loading = FALSE]
        ELSE [s EXCEPT !.tp = tp,
                       !.tc = tc,
                       !.all = @ \o items,
                       !.disp = IF req.PageIndex = 1 THEN items ELSE @ \o items,
                       !.nomore = NoMoreAfter(req.PageIndex, tp, tc, @),
                       !.loading = FALSE]

\* window.py:1406-1491  _load_assets_for_category from the gateway's answer on
on_response(s, req, outcome) ==
    LET items == ApiList(req.CategoryId, req.Key, req.PageIndex)
        tp == ApiPageCount(req.CategoryId, req.Key)
        tc == ApiCount(req.CategoryId, req.Key)
    IN  IF outcome \in GatewayErrors
        THEN [s EXCEPT !.err = "Failed to load assets", !.loading = FALSE]
        ELSE IF ~Succeeds(outcome)
        THEN [s EXCEPT !.tp = tp, !.tc = tc,
                       !.err = "Failed to load assets", !.loading = FALSE]
        ELSE [s EXCEPT !.tp = tp,
                       !.tc = tc,
                       !.all = @ \o items,
                       !.disp = IF req.PageIndex = 1 THEN items ELSE @ \o items,
                       !.nomore = NoMoreAfter(req.PageIndex, tp, tc, @),
                       !.loading = FALSE]

(***************************************************************************)
(* History: the run of successful fetches of pages 1, 2, ... of one        *)
(* context since the last reset, undisturbed by any other response.        *)
(***************************************************************************)
SeqReset == [n |-> 0, clean |-> TRUE, cid |-> "", key |-> ""]

SeqAfter(req, outcome) ==
    IF ~Succeeds(outcome) THEN seq
    ELSE IF /\ seq.clean
            /\ req.PageIndex = seq.n + 1
            /\ (seq.n = 0 \/ (req.CategoryId = seq.cid /\ req.Key = seq.key))
         THEN [n |-> req.PageIndex, clean |-> TRUE,
               cid |-> req.CategoryId, key |-> req.Key]
         ELSE [seq EXCEPT !.clean = FALSE]

(***************************************************************************)
(* The initial state: the window constructed (window.py:310-392), its UI   *)
(* built, the DataManager constructed (data_manager.py:142-149).           *)
(***************************************************************************)
\* the state of the window, the event loop, the DataManager and APP_STATE
\* after construction
InitProgram ==
    /\ asset_type_id_selected = FirstAssetTypeId
    /\ asset_category_id_selected = None
    /\ search_bar = ""
    /\ current_page_index = 1
    /\ total_pages_from_api = 1
    /\ total_count_from_api = 0
    /\ is_loading_more = FALSE
    /\ no_more_assets_to_load = FALSE
    /\ all_loaded_asset_items = <<>>
    /\ displayed_asset_items = <<>>
    /\ error_msg = ""
    /\ search_timer_handle = None
    /\ timers = <<>>
    /\ ready = <<>>
    /\ inflight = <<>>
    /\ session = NoSession
    /\ closed = <<>>
    /\ session_lock = NoFlow
    /\ lock_waiters = <<>>
    /\ acquired = {}
    /\ closes = 0
    /\ token = None
    /\ is_token_expired = Unset
    /\ is_system_admin = Unset
    /\ user_info = None
    /\ username = None
    /\ password = ""
    /\ remember_me = Unset
    /\ settings = NoSettings
    /\ auth_op = "none"
    /\ call = NoCall
    /\ window_open = TRUE
    /\ flow = [f \in 1..NumFlows |-> [pc |-> "idle", got |-> NoSession]]
    /\ since_key = DebounceDelay
    /\ burst = 0
    /\ seq = SeqReset

\* window.py:327  no category model is built yet
Init ==
    /\ InitProgram
    /\ category_list = <<>>
    /\ nodes = <<>>
    /\ plaintext = <<>>
    /\ ciphertext_b64 = <<>>
    /\ decrypted = [raised |-> "not run", text |-> <<>>]

(***************************************************************************)
(* The search field and its debounce timer.                                *)
(***************************************************************************)
\* window.py:770-772 without the call of cancel
CancelTimer_skipped(tm, handle) == tm

\* window.py:770-772  cancel the pending timer, if the handle's timer has not
\* run yet (the handle's timer is the one scheduled last)
CancelTimer(tm, handle) ==
    IF handle = "pending" THEN SubSeq(tm, 1, Len(tm) - 1) ELSE tm

\* window.py:794-797  loop.call_later(self._debounce_delay, ...)
ScheduleTimer(tm) == Append(tm, DebounceDelay)

\* window.py:768-797  _on_search_keyword_changed, the callback of the search
\* field's model (window.py:766)
KeywordChanged ==
    /\ timers' = ScheduleTimer(CancelTimer(timers, search_timer_handle))
    /\ search_timer_handle' = "pending"
    /\ since_key' = 0
    /\ burst' = IF since_key < DebounceDelay THEN Min(MaxBurst, burst + 1) ELSE 1

\* The user edits the search field.
OnSearchKeywordChanged(k) ==
    /\ k # search_bar
    /\ Len(CancelTimer(timers, search_timer_handle)) < MaxTimers
    /\ search_bar' = k
    /\ KeywordChanged
    /\ UNCHANGED <<pageVars, asset_type_id_selected, asset_category_id_selected,
                   ready, inflight, sessionVars, gatewayVars, treeVars, aesVars, window_open, seq>>

\* Time passes by one step.
Tick ==
    /\ \/ since_key < DebounceDelay
       \/ \E i \in 1..Len(timers) : timers[i] > 0
    /\ timers' = [i \in 1..Len(timers) |-> Max(0, timers[i] - 1)]
    /\ since_key' = Min(DebounceDelay, since_key + 1)
    /\ UNCHANGED <<pageVars, windowVars, ready, inflight, sessionVars, gatewayVars, treeVars, aesVars, window_open, burst,
                   seq>>

\* window.py:795-797  a call_later callback is due: the event loop runs the
\* lambda, which hands _debounced_search to asyncio.ensure_future
TimerFires(i) ==
    /\ i \in 1..Len(timers)
    /\ timers[i] = 0
    /\ Len(ready) < MaxReady
    /\ timers' = RemoveAt(timers, i)
    /\ search_timer_handle' =
          IF i = Len(timers) /\ search_timer_handle = "pending"
          THEN "dead" ELSE search_timer_handle
    /\ ready' = Append(ready, Task("search", None, 1))
    /\ burst' = 0
    /\ UNCHANGED <<pageVars, asset_type_id_selected, asset_category_id_selected,
                   search_bar, inflight, sessionVars, gatewayVars, treeVars, aesVars, window_open, since_key, seq>>

(***************************************************************************)
(* Tree selection.                                                         *)
(***************************************************************************)
\* window.py:1169-1205  _on_selection_changed with one item selected.  The
\* search field's set_value("") calls _on_search_keyword_changed when the
\* text changes.
OnSelectionChanged(category_id) ==
    /\ Len(ready) < MaxReady
    /\ IF asset_category_id_selected = category_id
       THEN UNCHANGED <<pageVars, windowVars, loopVars, historyVars>>
       ELSE LET s == reset_pagination_state(PageState, TRUE) IN
            /\ asset_category_id_selected' = category_id
            /\ Commit([s EXCEPT !.rdy = Append(@, Task("load", category_id, 1))])
            /\ search_bar' = ""
            /\ IF search_bar # ""
               THEN KeywordChanged
               ELSE UNCHANGED <<timers, search_timer_handle, since_key, burst>>
            /\ seq' = SeqReset
            /\ UNCHANGED asset_type_id_selected
    /\ UNCHANGED <<sessionVars, gatewayVars, treeVars, aesVars, window_open>>

\* window.py:1206-1211  _on_selection_changed with nothing selected
OnSelectionCleared ==
    /\ Commit(reset_pagination_state(PageState, TRUE))
    /\ seq' = SeqReset
    /\ UNCHANGED <<windowVars, timers, sessionVars, gatewayVars, treeVars, aesVars, window_open, since_key, burst>>

(***************************************************************************)
(* Scrolling.                                                              *)
(***************************************************************************)
\* window.py:871-891  on_scrolling(scroll_pos_y) with scroll_y_max = max_scroll
ScrollTriggers(scroll_pos_y, max_scroll) ==
    /\ ~is_loading_more
    /\ ~no_more_assets_to_load
    /\ max_scroll > 0
    /\ scroll_pos_y * 10 >= ScrollThreshold * max_scroll

OnScrolling(scroll_pos_y, max_scroll) ==
    /\ Len(ready) < MaxReady
    /\ IF ScrollTriggers(scroll_pos_y, max_scroll)
       THEN ready' = Append(ready, Task("lazy", None, 0))
       ELSE ready' = ready
    /\ UNCHANGED <<pageVars, windowVars, timers, inflight, sessionVars, gatewayVars, treeVars, aesVars, window_open,
                   historyVars>>


(***************************************************************************)
(* The event loop runs the entry at the head of the ready queue.           *)
(***************************************************************************)
\* the page state seen by the coroutine the event loop starts: the head of
\* the ready queue is removed, and one coroutine fewer stands before the
\* continuation of each request in flight
Started ==
    [PageState EXCEPT
        !.rdy = Tail(ready),
        !.infl = [i \in 1..Len(inflight) |->
                     [inflight[i] EXCEPT !.behind = Max(0, @ - 1)]]]

\* window.py:1339-1406  a coroutine _load_assets_for_category(category_id, 1)
\* scheduled by _on_selection_changed (window.py:1203-1205) starts
RunLoad ==
    /\ ready # <<>>
    /\ Head(ready).t = "load"
    /\ \E resolved \in BOOLEAN :
          LET s0 == Started
              s == load_assets_for_category(s0, Head(ready).cat,
                                            Head(ready).page, resolved)
          IN  /\ Len(s.infl) <= MaxInflight
              /\ Commit(s)
    /\ UNCHANGED <<windowVars, timers, sessionVars, gatewayVars, treeVars, aesVars, window_open, historyVars>>

\* window.py:1496-1501  the conditions of _lazy_load_next_page_if_needed
LazyLoadNeeded(s) ==
    /\ ~s.loading
    /\ ~s.nomore
    /\ s.cur < s.tp
    /\ asset_category_id_selected # None

\* window.py:1493-1509  _lazy_load_next_page_if_needed, scheduled by
\* on_scrolling (window.py:891)
RunLazy ==
    /\ ready # <<>>
    /\ Head(ready).t = "lazy"
    /\ LET s0 == Started IN
       IF LazyLoadNeeded(s0)
       THEN \E resolved \in BOOLEAN :
               LET s == load_assets_for_category(s0, asset_category_id_selected,
                                                 s0.cur + 1, resolved)
               IN  /\ Len(s.infl) <= MaxInflight
                   /\ Commit(s)
       ELSE Commit(s0)
    /\ UNCHANGED <<windowVars, timers, sessionVars, gatewayVars, treeVars, aesVars, window_open, historyVars>>

\* window.py:775-791  _debounced_search
RunSearch ==
    /\ ready # <<>>
    /\ Head(ready).t = "search"
    /\ LET s0 == reset_pagination_state(Started, TRUE) IN
       IF asset_category_id_selected # None
       THEN \E resolved \in BOOLEAN :
               LET s == load_assets_for_category(s0, asset_category_id_selected,
                                                 1, resolved)
               IN  /\ Len(s.infl) <= MaxInflight
                   /\ Commit(s)
       ELSE Commit(s0)
    /\ seq' = SeqReset
    /\ UNCHANGED <<windowVars, timers, sessionVars, gatewayVars, treeVars, aesVars, window_open, since_key, burst>>

\* window.py:1406-1491  the answer to request i arrives and the suspended
\* _load_assets_for_category resumes with the gateway's result or exception
RunWake(i) ==
    /\ i \in 1..Len(inflight)
    /\ inflight[i].behind = 0
    /\ \E outcome \in Outcomes :
          LET req == inflight[i]
              s0 == [PageState EXCEPT !.infl = RemoveAt(inflight, i)]
          IN  /\ outcome = "bad_item" =>
                    ApiList(req.CategoryId, req.Key, req.PageIndex) # <<>>
              /\ Commit(on_response(s0, req, outcome))
              /\ seq' = SeqAfter(req, outcome)
    /\ UNCHANGED <<windowVars, timers, sessionVars, gatewayVars, treeVars, aesVars, window_open, since_key, burst>>

\* positions and extents of the scroll bar that are tried
ScrollPositions == {0, 7, 8, 10}

ScrollExtents == {0, 10}

Next ==
    \/ \E c \in Categories : OnSelectionChanged(c)
    \/ OnSelectionCleared
    \/ \E k \in Keywords : OnSearchKeywordChanged(k)
    \/ \E i \in 1..MaxTimers : TimerFires(i)
    \/ Tick
    \/ \E y \in ScrollPositions, m \in ScrollExtents : OnScrolling(y, m)
    \/ RunLoad
    \/ RunLazy
    \/ RunSearch
    \/ \E i \in 1..MaxInflight : RunWake(i)

Spec == Init /\ [][Next]_vars

(***************************************************************************)
(* DataManager: the shared ClientSession (data_manager.py:126-179).  A     *)
(* flow is a caller of _get_session (every request, data_manager.py:189)   *)
(* or of close (window.py:440, data_manager.py:159).                       *)
(***************************************************************************)
Flows == 1..NumFlows

\* the ClientSession objects that were created and are not closed
LiveSessions == {s \in 1..Len(closed) : ~closed[s]}

\* the test of data_manager.py:165 replaced by True
NeedsNewSession_always == TRUE

\* data_manager.py:165  self.session is None or self.session.closed
NeedsNewSession == session = NoSession \/ closed[session]

\* data_manager.py:176  self.session and not self.session.closed
SessionOpen == session # NoSession /\ ~closed[session]

\* asyncio.Lock.acquire returns at once when the lock is free and nobody
\* waits for it (data_manager.py:164, 175)
LockFree == session_lock = NoFlow /\ lock_waiters = <<>>

\* the body of _get_session with the lock kept after the session is handed
\* out
get_session_body_keeps_lock(f, waiters) ==
    /\ NeedsNewSession => Len(closed) < MaxSessions
    /\ IF NeedsNewSession
       THEN /\ closed' = Append(closed, FALSE)
            /\ session' = Len(closed) + 1
       ELSE UNCHANGED <<session, closed>>
    /\ flow' = [flow EXCEPT ![f] = [pc |-> "idle", got |-> session']]
    /\ acquired' = acquired \union {session'}
    /\ closes' = 0
    /\ session_lock' = f
    /\ lock_waiters' = waiters

\* data_manager.py:165-171  the body of _get_session, which has no await:
\* the lock is taken and released within the step
get_session_body(f, waiters) ==
    /\ NeedsNewSession => Len(closed) < MaxSessions
    /\ IF NeedsNewSession
       THEN /\ closed' = Append(closed, FALSE)
            /\ session' = Len(closed) + 1
       ELSE UNCHANGED <<session, closed>>
    /\ flow' = [flow EXCEPT ![f] = [pc |-> "idle", got |-> session']]
    /\ acquired' = acquired \union {session'}
    /\ closes' = 0
    /\ session_lock' = NoFlow
    /\ lock_waiters' = waiters

\* data_manager.py:176-177  the body of close up to await self.session.close();
\* the lock stays held while the coroutine is suspended
close_body(f, waiters) ==
    /\ IF SessionOpen
       THEN /\ session_lock' = f
            /\ flow' = [flow EXCEPT ![f].pc = "closing"]
            /\ acquired' = acquired
            /\ closes' = closes
       ELSE /\ session_lock' = NoFlow
            /\ flow' = [flow EXCEPT ![f].pc = "idle"]
            /\ acquired' = {}
            /\ closes' = Min(MaxCloses, closes + 1)
    /\ lock_waiters' = waiters
    /\ UNCHANGED <<session, closed>>

\* data_manager.py:162-171  a flow calls _get_session
GetSession(f) ==
    /\ flow[f].pc = "idle"
    /\ IF LockFree
       THEN get_session_body(f, lock_waiters)
       ELSE /\ lock_waiters' = Append(lock_waiters, f)
            /\ flow' = [flow EXCEPT ![f].pc = "wait_get"]
            /\ UNCHANGED <<session, closed, session_lock, acquired, closes>>
    /\ UNCHANGED <<pageVars, windowVars, loopVars, historyVars,
                   gatewayVars, treeVars, aesVars, window_open>>

\* data_manager.py:173-179  a flow calls close
Close(f) ==
    /\ flow[f].pc = "idle"
    /\ IF LockFree
       THEN close_body(f, lock_waiters)
       ELSE /\ lock_waiters' = Append(lock_waiters, f)
            /\ flow' = [flow EXCEPT ![f].pc = "wait_close"]
            /\ UNCHANGED <<session, closed, session_lock, acquired, closes>>
    /\ UNCHANGED <<pageVars, windowVars, loopVars, historyVars,
                   gatewayVars, treeVars, aesVars, window_open>>

\* data_manager.py:164, 175  the lock was released: the flow that waited
\* longest takes it and runs its body
LockGranted(f) ==
    /\ session_lock = NoFlow
    /\ lock_waiters # <<>>
    /\ Head(lock_waiters) = f
    /\ IF flow[f].pc = "wait_get"
       THEN get_session_body(f, Tail(lock_waiters))
       ELSE close_body(f, Tail(lock_waiters))
    /\ UNCHANGED <<pageVars, windowVars, loopVars, historyVars,
                   gatewayVars, treeVars, aesVars, window_open>>

\* data_manager.py:177-178 without line 179: self.session keeps the closed
\* session
CloseDone_keeps_session(f) ==
    /\ flow[f].pc = "closing"
    /\ closed' = [closed EXCEPT ![session] = TRUE]
    /\ session' = session
    /\ session_lock' = NoFlow
    /\ flow' = [flow EXCEPT ![f].pc = "idle"]
    /\ acquired' = {}
    /\ closes' = Min(MaxCloses, closes + 1)
    /\ UNCHANGED <<lock_waiters, pageVars, windowVars, loopVars, historyVars,
                   gatewayVars, treeVars, aesVars, window_open>>

\* data_manager.py:177-179  session.close() has finished: the session is
\* closed, self.session is None, the lock is released
CloseDone(f) ==
    /\ flow[f].pc = "closing"
    /\ closed' = [closed EXCEPT ![session] = TRUE]
    /\ session' = NoSession
    /\ session_lock' = NoFlow
    /\ flow' = [flow EXCEPT ![f].pc = "idle"]
    /\ acquired' = {}
    /\ closes' = Min(MaxCloses, closes + 1)
    /\ UNCHANGED <<lock_waiters, pageVars, windowVars, loopVars, historyVars,
                   gatewayVars, treeVars, aesVars, window_open>>

NextSession ==
    \/ \E f \in Flows : GetSession(f)
    \/ \E f \in Flows : Close(f)
    \/ \E f \in Flows : LockGranted(f)
    \/ \E f \in Flows : CloseDone(f)

SpecSession == Init /\ [][NextSession]_vars

(***************************************************************************)
(* Shutdown (extension.py:60-71, window.py:430-440): the window's events   *)
(* that schedule a fetch, the fetch coroutines as callers of _get_session, *)
(* and on_shutdown, whose clean_up cancels the debounce timer and hands    *)
(* DataManager.close() to the event loop.  The page state is not followed  *)
(* here: whether a started fetch coroutine reaches _request (it does not   *)
(* when the guard, the configuration check or the lookup ends it) is an    *)
(* input of its step.                                                      *)
(***************************************************************************)
\* the coroutines of the ready queue that fetch a page
FetchTasks == {"load", "lazy", "search"}

\* window.py:1169-1211, 768-797, 871-891  the window's events, while the
\* window exists
WindowEvent ==
    /\ window_open
    /\ \/ OnSelectionChanged("A")
       \/ \E k \in Keywords : OnSearchKeywordChanged(k)
       \/ OnScrolling(10, 10)

\* the category a fetch coroutine asks for (window.py:785-787, 1203-1205,
\* 1507-1509)
FetchCategory(task) ==
    IF task.t = "load" THEN task.cat ELSE asset_category_id_selected

\* window.py:1339-1406, data_manager.py:189  the event loop starts a fetch
\* coroutine.  If it reaches _request, flow f calls _get_session: with the
\* lock free the session is there at once and the request is sent,
\* otherwise the coroutine waits for the lock.
RunFetch(f, sends) ==
    /\ ready # <<>>
    /\ Head(ready).t \in FetchTasks
    /\ ready' = Tail(ready)
    /\ IF ~sends
       THEN UNCHANGED <<inflight, sessionVars>>
       ELSE /\ FetchCategory(Head(ready)) # None
            /\ flow[f].pc = "idle"
            /\ IF LockFree
               THEN /\ Len(inflight) < MaxInflight
                    /\ get_session_body(f, lock_waiters)
                    /\ inflight' = Append(inflight,
                                          Request(FetchCategory(Head(ready)),
                                                  1, Len(ready) - 1))
               ELSE /\ lock_waiters' = Append(lock_waiters, f)
                    /\ flow' = [flow EXCEPT ![f].pc = "wait_get"]
                    /\ UNCHANGED <<inflight, session, closed, session_lock,
                                   acquired, closes>>
    /\ UNCHANGED <<pageVars, windowVars, timers, historyVars, gatewayVars,
                   treeVars, aesVars, window_open>>

\* data_manager.py:164, 175  the lock was released: the coroutine that
\* waited longest takes it.  A fetch coroutine gets the session and sends
\* its request (data_manager.py:189-197), a close() runs its body.
LockHandedOver(f) ==
    /\ session_lock = NoFlow
    /\ lock_waiters # <<>>
    /\ Head(lock_waiters) = f
    /\ IF flow[f].pc = "wait_get"
       THEN /\ Len(inflight) < MaxInflight
            /\ get_session_body(f, Tail(lock_waiters))
            /\ inflight' = Append(inflight,
                                  Request(asset_category_id_selected, 1,
                                          Len(ready)))
       ELSE /\ close_body(f, Tail(lock_waiters))
            /\ inflight' = inflight
    /\ UNCHANGED <<pageVars, windowVars, timers, ready, historyVars,
                   gatewayVars, treeVars, aesVars, window_open>>

\* window.py:1406-1491  a request in flight ends, with a response or with
\* an error (as it does when its session was closed under it); the
\* coroutine ends without another request
FetchAnswered(i) ==
    /\ i \in 1..Len(inflight)
    /\ inflight' = RemoveAt(inflight, i)
    /\ UNCHANGED <<pageVars, windowVars, timers, ready, sessionVars,
                   historyVars, gatewayVars, treeVars, aesVars, window_open>>

\* clean_up without the cancel of window.py:437-439
clean_up_keeps_timer(tm, handle) == tm

\* window.py:437-439  clean_up cancels the pending search timer
clean_up(tm, handle) == CancelTimer(tm, handle)

\* extension.py:60-71  on_shutdown: clean_up (window.py:435-440) runs twice,
\* called at extension.py:67 and from destroy (window.py:432), and each run
\* hands DATA_MANAGER.close() to the event loop; the window is destroyed
OnShutdown ==
    /\ window_open
    /\ window_open' = FALSE
    /\ timers' = clean_up(timers, search_timer_handle)
    /\ search_timer_handle' =
          IF search_timer_handle = "pending" THEN "dead"
          ELSE search_timer_handle
    /\ ready' = ready \o <<Task("close", None, 0), Task("close", None, 0)>>
    /\ UNCHANGED <<pageVars, asset_type_id_selected,
                   asset_category_id_selected, search_bar, inflight,
                   sessionVars, historyVars, gatewayVars, treeVars, aesVars>>

\* data_manager.py:173-179  the event loop starts a close() coroutine
RunClose(f) ==
    /\ ready # <<>>
    /\ Head(ready).t = "close"
    /\ ready' = Tail(ready)
    /\ flow[f].pc = "idle"
    /\ IF LockFree
       THEN close_body(f, lock_waiters)
       ELSE /\ lock_waiters' = Append(lock_waiters, f)
            /\ flow' = [flow EXCEPT ![f].pc = "wait_close"]
            /\ UNCHANGED <<session, closed, session_lock, acquired, closes>>
    /\ UNCHANGED <<pageVars, windowVars, timers, inflight, historyVars,
                   gatewayVars, treeVars, aesVars, window_open>>

NextShutdown ==
    \/ WindowEvent
    \/ Tick
    \/ \E i \in 1..MaxTimers : TimerFires(i)
    \/ \E f \in Flows, sends \in BOOLEAN : RunFetch(f, sends)
    \/ \E f \in Flows : LockHandedOver(f)
    \/ \E i \in 1..MaxInflight : FetchAnswered(i)
    \/ OnShutdown
    \/ \E f \in Flows : RunClose(f)
    \/ \E f \in Flows : CloseDone(f)

SpecShutdown == Init /\ [][NextShutdown]_vars

(***************************************************************************)
(* A fetch from its start to its end (window.py:1339-1491) together with   *)
(* the session it is sent on (data_manager.py:162-171, 189-197): the fetch *)
(* coroutine runs up to the await of its request in one step of the event  *)
(* loop, _get_session included, and resumes when the request ends.  Other  *)
(* callers of the gateway (the category tree, the log records) ask for the *)
(* session while a request of the window is in flight.                     *)
(***************************************************************************)
\* window.py:775-791, 1203-1205, 1493-1509  whether the coroutine at the
\* head of the ready queue calls _load_assets_for_category
CallsLoad(task, s) ==
    CASE task.t = "load"   -> TRUE
      [] task.t = "lazy"   -> LazyLoadNeeded(s)
      [] task.t = "search" -> asset_category_id_selected # None

\* window.py:787, 1205, 1507  the page the coroutine asks for
FetchPage(task, s) ==
    CASE task.t = "load"   -> task.page
      [] task.t = "lazy"   -> s.cur + 1
      [] task.t = "search" -> 1

\* window.py:1339-1406, data_manager.py:189-197  the event loop starts the
\* fetch coroutine at the head of the ready queue.  When it reaches _request,
\* flow f takes the session: with the lock free the request is sent within
\* the step; with the lock held the coroutine waits for the lock, its flag
\* set and its request not sent.
StartFetch(f) ==
    /\ ready # <<>>
    /\ Head(ready).t \in FetchTasks
    /\ \E resolved \in BOOLEAN :
          LET task == Head(ready)
              s0 == IF task.t = "search"
                    THEN reset_pagination_state(Started, TRUE) ELSE Started
              s == IF CallsLoad(task, s0)
                   THEN load_assets_for_category(s0, FetchCategory(task),
                                                 FetchPage(task, s0), resolved)
                   ELSE s0
          IN  /\ Len(s.infl) <= MaxInflight
              /\ IF Len(s.infl) = Len(inflight)
                 THEN Commit(s) /\ UNCHANGED sessionVars
                 ELSE /\ flow[f].pc = "idle"
                      /\ IF LockFree
                         THEN Commit(s) /\ get_session_body(f, lock_waiters)
                         ELSE /\ Commit([s EXCEPT !.infl = inflight])
                              /\ lock_waiters' = Append(lock_waiters, f)
                              /\ flow' = [flow EXCEPT ![f].pc = "wait_get"]
                              /\ UNCHANGED <<session, closed, session_lock,
                                             acquired, closes>>
              /\ seq' = IF task.t = "search" THEN SeqReset ELSE seq
    /\ UNCHANGED <<windowVars, timers, since_key, burst, gatewayVars,
                   treeVars, aesVars, window_open>>

\* data_manager.py:189  a caller of the gateway other than the window's
\* fetch (get_category_tree, window.py:1123; log_asset_load_record,
\* window.py:1702) takes the session
OtherRequest(f) == GetSession(f)

\* The user's events are those of one category with two pages, "All", and
\* of the search field.
NextLoading ==
    \/ OnSelectionChanged("All")
    \/ \E k \in Keywords : OnSearchKeywordChanged(k)
    \/ \E i \in 1..MaxTimers : TimerFires(i)
    \/ Tick
    \/ OnScrolling(10, 10)
    \/ \E f \in Flows : StartFetch(f)
    \/ \E i \in 1..MaxInflight : RunWake(i)
    \/ \E f \in Flows : OtherRequest(f)

\* The event loop runs every coroutine that is ready (asyncio runs its ready
\* callbacks first in, first out), and every request ends: with a response,
\* with an error, or with the ClientTimeout(total=60 * 2) of the session
\* (data_manager.py:169).
FairLoading ==
    /\ WF_vars(\E f \in Flows : StartFetch(f))
    /\ \A i \in 1..MaxInflight : WF_vars(RunWake(i))

SpecLoading == Init /\ [][NextLoading]_vars /\ FairLoading

(***************************************************************************)
(* The request gateway (data_manager.py:181-333) and the authentication    *)
(* state it reads and writes (app_state.py).  A call runs to its end in    *)
(* one step: what the backend answers is an input of the step.             *)
(***************************************************************************)
\* data_manager.py:231  error_code = json_data.get("ErrorCode", -1)
error_code(resp) ==
    IF resp.ErrorCode = Unset THEN MissingCode ELSE resp.ErrorCode[1]

\* data_manager.py:232  status_code = json_data.get("StatusCode", -1)
status_code(resp) ==
    IF resp.StatusCode = Unset THEN MissingCode ELSE resp.StatusCode[1]

\* data_manager.py:233  message = json_data.get("MessageCode", "Unknown error")
message(resp) ==
    IF resp.MessageCode = Unset THEN UnknownError ELSE resp.MessageCode[1]

\* data_manager.py:254  result = json_data.get("Result", {})
result(resp) == IF resp.Result = Unset THEN EmptyObject ELSE resp.Result[1]

\* the test of data_manager.py:202 that lets every 2xx status pass
HttpFailure_not_2xx(status) == status \div 100 # 2

\* data_manager.py:202  response.status != HTTP_SUCCESS
HttpFailure(status) == status # HTTP_SUCCESS

\* the test of data_manager.py:242-245 with "and" for "or"
BusinessFailure_both(ec, sc) == ec # BUSINESS_SUCCESS /\ sc # BUSINESS_SUCCESS

\* data_manager.py:242-245
BusinessFailure(ec, sc) == ec # BUSINESS_SUCCESS \/ sc # BUSINESS_SUCCESS

\* data_manager.py:230-258  the envelope of a parsed JSON object
envelope(resp, check_business_status) ==
    IF check_business_status /\ error_code(resp) = TOKEN_EXPIRED_CODE
    THEN Outcome("BusinessLogicException", "none", <<>>,
                 TOKEN_EXPIRED_MESSAGE, NoneValue, 1, TRUE)
    ELSE IF check_business_status
            /\ BusinessFailure(error_code(resp), status_code(resp))
    THEN Outcome("BusinessLogicException", "none",
                 <<error_code(resp), status_code(resp)>>, message(resp),
                 NoneValue, 1, FALSE)
    ELSE Returns(result(resp), 1)

\* data_manager.py:181-268  _request.  Line 189 is before the try; the
\* except clauses of 260-268 cover what is raised from line 194 on.
\* json_data.get of a value that is no object raises AttributeError
\* (line 231, or line 254 when check_business_status is off).
request(resp, check_business_status) ==
    IF resp.fault = "get_session"
    THEN Raises("Exception", "none", 0)
    ELSE IF resp.fault = "send"
    THEN Raises("DataManagerError", "Exception", 1)
    ELSE IF HttpFailure(resp.status)
    THEN Outcome("HTTPException", "none", <<resp.status>>, "", NoneValue, 1,
                 FALSE)
    ELSE IF resp.body = "content_type"
    THEN Raises("DataParsingException", "ContentTypeError", 1)
    ELSE IF resp.body = "malformed"
    THEN Raises("DataParsingException", "Exception", 1)
    ELSE IF resp.body = "not_object"
    THEN Raises("DataManagerError", "AttributeError", 1)
    ELSE envelope(resp, check_business_status)

\* data_manager.py:191  headers["Token"] = APP_STATE.token or ""
\* the account names and passwords typed into the login form
Usernames == {"u1", "u2", "u3"}
FirstUsername == "u1"
Passwords == {"", "p1", "p2"}

\* window.py:562  the LoginUserInfo of a login response
UserInfos == {"UserType 2", "UserType 5"}

\* app_state.py:50  encrypt_aes(password), the text persisted for a password
Sealed(pwd) == "aes(" \o pwd \o ")"

TokenHeader == IF token = None THEN "" ELSE token

\* app_state.py:31-34  is_logged_in
is_logged_in == token # None

\* data_manager.py:235-236  the flags written when the token has expired
WriteFlags(out) ==
    IF out.expiry
    THEN /\ is_token_expired' = <<TRUE>>
         /\ is_system_admin' = <<FALSE>>
         /\ auth_op' = "expired"
    ELSE UNCHANGED <<is_token_expired, is_system_admin, auth_op>>

\* The variants of an endpoint in ASSET_TYPES (data_manager.py:19-85):
\* "<key>", "<key>Free" and "<key>Private".
\* data_manager.py:284-293, 320-331  the choice among them.  Reading a flag
\* that was never assigned raises AttributeError.
TargetUrl(key, tab) ==
    IF tab = "Private"
    THEN [raised |-> "none", url |-> key \o "Private"]
    ELSE IF is_system_admin = Unset
    THEN [raised |-> "AttributeError", url |-> ""]
    ELSE IF is_system_admin[1]
    THEN [raised |-> "none", url |-> key]
    ELSE IF is_token_expired = Unset
    THEN [raised |-> "AttributeError", url |-> ""]
    ELSE IF (~is_token_expired[1]) /\ is_logged_in
    THEN [raised |-> "none", url |-> key \o "Private"]
    ELSE [raised |-> "none", url |-> key \o "Free"]

\* data_manager.py:297-303  what get_category_tree makes of the result
filtered_list(value, tab) ==
    IF value.kind # "list" \/ Len(value.items) < 1
    THEN List(<<>>)
    ELSE List(SelectSeq(value.items,
                        LAMBDA x : x.IsSystem = (tab = "Public")))

\* the visibility tabs (window.py:321) and the asset type ids tried, one
\* of them not in ASSET_TYPES
Tabs == {"Public", "Private"}
LookupIds == {"SimReady", "Nope"}

\* the asset types selected in the window when a page is fetched
\* (window.py:1354-1365: a configured one, or the fetch ends before the call)
WindowTypes == {"SimReady", "Model"}

\* app_state.py:36-41  login.  The two flags are not written.
Login(tok, name, loginuserinfo) ==
    /\ token' = tok
    /\ user_info' = loginuserinfo
    /\ username' = name
    /\ settings' = [settings EXCEPT !.username = name]
    /\ auth_op' = "login"
    /\ UNCHANGED <<is_token_expired, is_system_admin, password, remember_me,
                   call, pageVars, windowVars, loopVars, sessionVars,
                   historyVars, treeVars, aesVars, window_open>>

\* app_state.py:43-51  save_credentials
SaveCredentials(name, pwd, remember) ==
    /\ username' = name
    /\ password' = pwd
    /\ remember_me' = <<remember>>
    /\ settings' = [username |-> name, password |-> Sealed(pwd),
                    remember_me |-> <<remember>>]
    /\ auth_op' = "save_credentials"
    /\ UNCHANGED <<token, is_token_expired, is_system_admin, user_info, call,
                   pageVars, windowVars, loopVars, sessionVars, historyVars,
                   treeVars, aesVars, window_open>>

\* logout without the test of app_state.py:56
logout_clears_always(remember) == TRUE

\* app_state.py:56  "if not self.remember_me": None and False both clear
logout_clears(remember) == remember # <<TRUE>>

\* app_state.py:53-63  logout
Logout ==
    /\ token' = None
    /\ user_info' = None
    /\ IF logout_clears(remember_me)
       THEN /\ username' = None
            /\ password' = None
            /\ settings' = [username |-> "", password |-> "",
                            remember_me |-> <<FALSE>>]
       ELSE UNCHANGED <<username, password, settings>>
    /\ auth_op' = "logout"
    /\ UNCHANGED <<is_token_expired, is_system_admin, remember_me, call,
                   pageVars, windowVars, loopVars, sessionVars, historyVars,
                   treeVars, aesVars, window_open>>

\* data_manager.py:335-338  a caller of _request with the default
\* check_business_status, and _request called with either value of it
ApiRequest(resp, check_business_status) ==
    LET out == request(resp, check_business_status) IN
    /\ call' = Call("request", "", "", "AddLoadRecord", TokenHeader,
                    check_business_status, resp, out)
    /\ WriteFlags(out)
    /\ UNCHANGED <<token, credentialVars, pageVars, windowVars, loopVars,
                   sessionVars, historyVars, treeVars, aesVars, window_open>>

\* data_manager.py:270-303  get_category_tree
GetCategoryTree(asset_type_id, tab, resp) ==
    LET target == TargetUrl("CategoryListUrl", tab)
        out == request(resp, TRUE)
    IN  /\ IF asset_type_id \notin AssetTypeIds
           THEN /\ call' = Call("get_category_tree", asset_type_id, tab, "", "",
                                TRUE, NoResponse, Returns(NoneValue, 0))
                /\ UNCHANGED <<is_token_expired, is_system_admin, auth_op>>
           ELSE IF target.raised # "none"
           THEN /\ call' = Call("get_category_tree", asset_type_id, tab, "", "",
                                TRUE, NoResponse, Raises(target.raised, "none", 0))
                /\ UNCHANGED <<is_token_expired, is_system_admin, auth_op>>
           ELSE /\ call' = Call("get_category_tree", asset_type_id, tab,
                                target.url, TokenHeader, TRUE, resp,
                                IF out.raised = "none"
                                THEN Returns(filtered_list(out.value, tab), 1)
                                ELSE out)
                /\ WriteFlags(out)
        /\ UNCHANGED <<token, credentialVars, pageVars, windowVars, loopVars,
                       sessionVars, historyVars, treeVars, aesVars, window_open>>

\* data_manager.py:305-333  get_asset_list, called as op by its caller
get_asset_list(op, asset_type_id, tab, resp) ==
    LET target == TargetUrl("CategoryItemContentUrl", tab)
        out == request(resp, TRUE)
    IN  /\ IF asset_type_id \notin AssetTypeIds
           THEN /\ call' = Call(op, asset_type_id, tab, "", "",
                                TRUE, NoResponse, Returns(NoneValue, 0))
                /\ UNCHANGED <<is_token_expired, is_system_admin, auth_op>>
           ELSE IF target.raised # "none"
           THEN /\ call' = Call(op, asset_type_id, tab, "", "",
                                TRUE, NoResponse,
                                Raises(target.raised, "none", 0))
                /\ UNCHANGED <<is_token_expired, is_system_admin, auth_op>>
           ELSE /\ call' = Call(op, asset_type_id, tab,
                                target.url, TokenHeader, TRUE, resp, out)
                /\ WriteFlags(out)
        /\ UNCHANGED <<token, credentialVars, pageVars, windowVars, loopVars,
                       sessionVars, historyVars, treeVars, aesVars, window_open>>

\* data_manager.py:305-333  get_asset_list called with an asset type id
GetAssetList(asset_type_id, tab, resp) ==
    get_asset_list("get_asset_list", asset_type_id, tab, resp)

\* window.py:1372-1376  list_api_url: the item-list URL of the selected asset
\* type, by the login state
list_api_url(asset_type_id) ==
    asset_type_id \o (IF is_logged_in THEN "/CategoryItemContentUrl"
                                      ELSE "/CategoryItemContentUrlFree")

\* window.py:1367-1406  _load_assets_for_category calls
\* DATA_MANAGER.get_asset_list(list_api_url, params): the URL goes where
\* get_asset_list takes the asset type id, the tab is the default "Public"
LoadAssetsCall(asset_type_id, resp) ==
    get_asset_list("_load_assets_for_category", list_api_url(asset_type_id),
                   "Public", resp)

NextGateway ==
    \/ Login("tok", FirstUsername, "UserType 5")
    \/ Logout
    \/ \E resp \in Responses, check \in BOOLEAN : ApiRequest(resp, check)
    \/ \E a \in LookupIds, tab \in Tabs, resp \in Responses :
          GetCategoryTree(a, tab, resp)
    \/ \E a \in LookupIds, tab \in Tabs, resp \in Responses :
          GetAssetList(a, tab, resp)
    \/ \E a \in WindowTypes, resp \in Responses : LoadAssetsCall(a, resp)

SpecGateway == Init /\ [][NextGateway]_vars

(***************************************************************************)
(* AppState on its own (app_state.py:16-63): the login form saves the      *)
(* credentials and logs in (window.py:566-567), the user logs out          *)
(* (window.py:608).                                                        *)
(***************************************************************************)
NextAuth ==
    \/ \E name \in Usernames, info \in UserInfos : Login("tok", name, info)
    \/ \E name \in Usernames, pwd \in Passwords, remember \in BOOLEAN :
          SaveCredentials(name, pwd, remember)
    \/ Logout

SpecAuth == Init /\ [][NextAuth]_vars

(***************************************************************************)
(* The category tree (tree_models.py:8-53; the same code stands in         *)
(* window.py:124-169).  A payload is a list of records; a record holds a   *)
(* CategoryId and, under the key CategoryLists, the list of its            *)
(* sub-records, or lacks that key.  The CategoryItem objects are kept in   *)
(* nodes in the order of their creation; a reference to an object is its   *)
(* index there.                                                            *)
(***************************************************************************)
CategoryIds == {"A", "B"}

\* the payloads with exactly n records
RECURSIVE PayloadsOfSize(_)
PayloadsOfSize(n) ==
    IF n = 0
    THEN {<<>>}
    ELSE UNION {
           {<<[CategoryId |-> id, CategoryLists |-> sub]>> \o rest :
               id \in CategoryIds,
               sub \in IF k = 0
                       THEN {Unset, <<<<>>>>}
                       ELSE {<<p>> : p \in PayloadsOfSize(k)},
               rest \in PayloadsOfSize(n - 1 - k)} : k \in 0..(n - 1)}

Payloads == UNION {PayloadsOfSize(n) : n \in 0..MaxRecords}

\* tree_models.py:16  parent=None
NoParent == 0

\* tree_models.py:41-43  the reference to self._root
Root == 1

\* tree_models.py:13-17  CategoryItem.__init__
CategoryItem(data, parent) ==
    [data |-> data, parent |-> parent, children |-> <<>>]

\* tree_models.py:41-43  the data of the root item
RootData == [CategoryId |-> "root", CategoryLists |-> Unset]

\* tree_models.py:51  sub_items = item_data.get("CategoryLists", [])
sub_items(item_data) ==
    IF item_data.CategoryLists = Unset THEN <<>> ELSE item_data.CategoryLists[1]

\* tree_models.py:46-53 with the child put in front of its siblings
RECURSIVE build_tree_prepends(_, _, _)
build_tree_prepends(heap, parent_item, items) ==
    IF items = <<>>
    THEN heap
    ELSE LET item_data == Head(items)
             child_item == Len(heap) + 1
             h1 == Append(heap, CategoryItem(item_data, parent_item))
             h2 == [h1 EXCEPT ![parent_item].children = <<child_item>> \o @]
             h3 == IF sub_items(item_data) # <<>>
                   THEN build_tree_prepends(h2, child_item,
                                            sub_items(item_data))
                   ELSE h2
         IN  build_tree_prepends(h3, parent_item, Tail(items))

\* tree_models.py:46-53  _build_tree: the for loop over items, one record
\* per turn; heap is the objects created so far
RECURSIVE build_tree(_, _, _)
build_tree(heap, parent_item, items) ==
    IF items = <<>>
    THEN heap
    ELSE LET item_data == Head(items)
             child_item == Len(heap) + 1
             h1 == Append(heap, CategoryItem(item_data, parent_item))
             h2 == [h1 EXCEPT ![parent_item].children = Append(@, child_item)]
             h3 == IF sub_items(item_data) # <<>>
                   THEN build_tree(h2, child_item, sub_items(item_data))
                   ELSE h2
         IN  build_tree(h3, parent_item, Tail(items))

\* tree_models.py:39-44  CategoryModel.__init__
CategoryModel(payload) ==
    build_tree(<<CategoryItem(RootData, NoParent)>>, Root, payload)

\* a payload has arrived and no model is built from it yet
InitTree ==
    /\ InitProgram
    /\ category_list \in Payloads
    /\ nodes = <<>>
    /\ plaintext = <<>>
    /\ ciphertext_b64 = <<>>
    /\ decrypted = [raised |-> "not run", text |-> <<>>]

\* window.py:1141  self._category_model = CategoryModel(category_list)
BuildModel ==
    /\ nodes = <<>>
    /\ nodes' = CategoryModel(category_list)
    /\ UNCHANGED <<category_list, pageVars, windowVars, loopVars, sessionVars,
                   historyVars, gatewayVars, aesVars, window_open>>

NextTree == BuildModel

SpecTree == InitTree /\ [][NextTree]_vars

(***************************************************************************)
(* The password cipher (aes.py): AES-128 in ECB mode with PKCS7 padding    *)
(* over the UTF-8 bytes of the text, the ciphertext in base64.  A text is  *)
(* the sequence of its code points, a byte string the sequence of its      *)
(* bytes, a base64 text the sequence of its ASCII codes.  An operation     *)
(* that can raise yields a record: raised is "none" or the exception.      *)
(***************************************************************************)
\* code points whose UTF-8 forms take 1, 2, 3 and 4 bytes: "A", e acute,
\* a CJK ideograph, an emoji
Alphabet == {65, 233, 20013, 128512}

\* the texts given to encrypt_aes
Texts == UNION {[1..n -> Alphabet] : n \in 0..MaxChars}

\* str.encode("utf-8") of one code point (aes.py:23)
encode_char(c) ==
    IF c < 128 THEN <<c>>
    ELSE IF c < 2048 THEN <<192 + (c \div 64), 128 + (c % 64)>>
    ELSE IF c < 65536
    THEN <<224 + (c \div 4096), 128 + ((c \div 64) % 64), 128 + (c % 64)>>
    ELSE <<240 + (c \div 262144), 128 + ((c \div 4096) % 64),
           128 + ((c \div 64) % 64), 128 + (c % 64)>>

RECURSIVE encode_utf8(_)
\* aes.py:23  plaintext.encode("utf-8")
encode_utf8(text) ==
    IF text = <<>> THEN <<>>
    ELSE encode_char(Head(text)) \o encode_utf8(Tail(text))

\* the length of the UTF-8 form a lead byte announces, 0 for no lead byte
char_len(b) ==
    IF b < 128 THEN 1
    ELSE IF b >= 192 /\ b < 224 THEN 2
    ELSE IF b >= 224 /\ b < 240 THEN 3
    ELSE IF b >= 240 /\ b < 248 THEN 4
    ELSE 0

\* the code point held by the n bytes at the head of data
char_value(data, n) ==
    IF n = 1 THEN data[1]
    ELSE IF n = 2 THEN (data[1] - 192) * 64 + (data[2] - 128)
    ELSE IF n = 3
    THEN (data[1] - 224) * 4096 + (data[2] - 128) * 64 + (data[3] - 128)
    ELSE (data[1] - 240) * 262144 + (data[2] - 128) * 4096
         + (data[3] - 128) * 64 + (data[4] - 128)

Decoded_text(text) == [raised |-> "none", text |-> text]
Failed(exception) == [raised |-> exception, text |-> <<>>]

RECURSIVE decode_utf8(_)
\* aes.py:59  plaintext_bytes.decode("utf-8"): strict, so a truncated,
\* overlong or surrogate form raises UnicodeDecodeError
decode_utf8(data) ==
    IF data = <<>> THEN Decoded_text(<<>>)
    ELSE LET n == char_len(data[1]) IN
         IF \/ n = 0
            \/ Len(data) < n
            \/ \E i \in 2..n : data[i] < 128 \/ data[i] >= 192
         THEN Failed("UnicodeDecodeError")
         ELSE LET c == char_value(data, n)
                  rest == decode_utf8(SubSeq(data, n + 1, Len(data)))
              IN  IF \/ c > 1114111
                     \/ (c >= 55296 /\ c < 57344)
                     \/ encode_char(c) # SubSeq(data, 1, n)
                  THEN Failed("UnicodeDecodeError")
                  ELSE IF rest.raised # "none" THEN rest
                  ELSE Decoded_text(<<c>> \o rest.text)

\* the base64 alphabet: the ASCII code of the digit of value v
b64_char(v) ==
    IF v < 26 THEN 65 + v
    ELSE IF v < 52 THEN 97 + (v - 26)
    ELSE IF v < 62 THEN 48 + (v - 52)
    ELSE IF v = 62 THEN 43
    ELSE 47

\* the value of the base64 digit with ASCII code ch
b64_value(ch) == CHOOSE v \in 0..63 : b64_char(v) = ch

RECURSIVE b64encode(_)
\* aes.py:28  base64.b64encode: three bytes give four digits, "=" (61) pads
b64encode(data) ==
    IF data = <<>> THEN <<>>
    ELSE IF Len(data) = 1
    THEN <<b64_char(data[1] \div 4), b64_char((data[1] % 4) * 16), 61, 61>>
    ELSE IF Len(data) = 2
    THEN <<b64_char(data[1] \div 4),
           b64_char((data[1] % 4) * 16 + (data[2] \div 16)),
           b64_char((data[2] % 16) * 4), 61>>
    ELSE <<b64_char(data[1] \div 4),
           b64_char((data[1] % 4) * 16 + (data[2] \div 16)),
           b64_char((data[2] % 16) * 4 + (data[3] \div 64)),
           b64_char(data[3] % 64)>>
         \o b64encode(SubSeq(data, 4, Len(data)))

RECURSIVE b64decode(_)
\* aes.py:10, 49  base64.b64decode of a text of base64 digits and padding,
\* its length a multiple of four
b64decode(text) ==
    IF text = <<>> THEN <<>>
    ELSE LET v1 == b64_value(text[1])
             v2 == b64_value(text[2])
         IN  IF text[3] = 61
             THEN <<v1 * 4 + (v2 \div 16)>>
             ELSE LET v3 == b64_value(text[3]) IN
                  IF text[4] = 61
                  THEN <<v1 * 4 + (v2 \div 16), (v2 % 16) * 16 + (v3 \div 4)>>
                  ELSE <<v1 * 4 + (v2 \div 16), (v2 % 16) * 16 + (v3 \div 4),
                         (v3 % 4) * 64 + b64_value(text[4])>>
                       \o b64decode(SubSeq(text, 5, Len(text)))

\* PKCS7 padding that adds nothing to a whole number of blocks
pad_to_boundary(data) ==
    LET n == (BlockSize - (Len(data) % BlockSize)) % BlockSize IN
    data \o [i \in 1..n |-> n]

\* aes.py:24  pad(plaintext_bytes, AES.block_size, style="pkcs7")
pad(data) ==
    LET n == BlockSize - (Len(data) % BlockSize) IN
    data \o [i \in 1..n |-> n]

\* aes.py:56  unpad(padded_plaintext, AES.block_size, style="pkcs7")
unpad(data) ==
    IF data = <<>> \/ Len(data) % BlockSize # 0
    THEN [raised |-> "ValueError", bytes |-> <<>>]
    ELSE LET n == data[Len(data)] IN
         IF \/ n < 1
            \/ n > BlockSize
            \/ \E i \in (Len(data) - n + 1)..Len(data) : data[i] # n
         THEN [raised |-> "ValueError", bytes |-> <<>>]
         ELSE [raised |-> "none", bytes |-> SubSeq(data, 1, Len(data) - n)]

\* The block cipher of Crypto.Cipher.AES (aes.py:22, 25, 52, 53): AES with a
\* 16-byte key, as FIPS 197 defines it.
SBox ==
    <<99, 124, 119, 123, 242, 107, 111, 197, 48, 1, 103, 43, 254, 215, 171, 118,
      202, 130, 201, 125, 250, 89, 71, 240, 173, 212, 162, 175, 156, 164, 114, 192,
      183, 253, 147, 38, 54, 63, 247, 204, 52, 165, 229, 241, 113, 216, 49, 21,
      4, 199, 35, 195, 24, 150, 5, 154, 7, 18, 128, 226, 235, 39, 178, 117,
      9, 131, 44, 26, 27, 110, 90, 160, 82, 59, 214, 179, 41, 227, 47, 132,
      83, 209, 0, 237, 32, 252, 177, 91, 106, 203, 190, 57, 74, 76, 88, 207,
      208, 239, 170, 251, 67, 77, 51, 133, 69, 249, 2, 127, 80, 60, 159, 168,
      81, 163, 64, 143, 146, 157, 56, 245, 188, 182, 218, 33, 16, 255, 243, 210,
      205, 12, 19, 236, 95, 151, 68, 23, 196, 167, 126, 61, 100, 93, 25, 115,
      96, 129, 79, 220, 34, 42, 144, 136, 70, 238, 184, 20, 222, 94, 11, 219,
      224, 50, 58, 10, 73, 6, 36, 92, 194, 211, 172, 98, 145, 149, 228, 121,
      231, 200, 55, 109, 141, 213, 78, 169, 108, 86, 244, 234, 101, 122, 174, 8,
      186, 120, 37, 46, 28, 166, 180, 198, 232, 221, 116, 31, 75, 189, 139, 138,
      112, 62, 181, 102, 72, 3, 246, 14, 97, 53, 87, 185, 134, 193, 29, 158,
      225, 248, 152, 17, 105, 217, 142, 148, 155, 30, 135, 233, 206, 85, 40, 223,
      140, 161, 137, 13, 191, 230, 66, 104, 65, 153, 45, 15, 176, 84, 187, 22>>

InvSBox ==
    <<82, 9, 106, 213, 48, 54, 165, 56, 191, 64, 163, 158, 129, 243, 215, 251,
      124, 227, 57, 130, 155, 47, 255, 135, 52, 142, 67, 68, 196, 222, 233, 203,
      84, 123, 148, 50, 166, 194, 35, 61, 238, 76, 149, 11, 66, 250, 195, 78,
      8, 46, 161, 102, 40, 217, 36, 178, 118, 91, 162, 73, 109, 139, 209, 37,
      114, 248, 246, 100, 134, 104, 152, 22, 212, 164, 92, 204, 93, 101, 182, 146,
      108, 112, 72, 80, 253, 237, 185, 218, 94, 21, 70, 87, 167, 141, 157, 132,
      144, 216, 171, 0, 140, 188, 211, 10, 247, 228, 88, 5, 184, 179, 69, 6,
      208, 44, 30, 143, 202, 63, 15, 2, 193, 175, 189, 3, 1, 19, 138, 107,
      58, 145, 17, 65, 79, 103, 220, 234, 151, 242, 207, 206, 240, 180, 230, 115,
      150, 172, 116, 34, 231, 173, 53, 133, 226, 249, 55, 232, 28, 117, 223, 110,
      71, 241, 26, 113, 29, 41, 197, 137, 111, 183, 98, 14, 170, 24, 190, 27,
      252, 86, 62, 75, 198, 210, 121, 32, 154, 219, 192, 254, 120, 205, 90, 244,
      31, 221, 168, 51, 136, 7, 199, 49, 177, 18, 16, 89, 39, 128, 236, 95,
      96, 81, 127, 169, 25, 181, 74, 13, 45, 229, 122, 159, 147, 201, 156, 239,
      160, 224, 59, 77, 174, 42, 245, 176, 200, 235, 187, 60, 131, 83, 153, 97,
      23, 43, 4, 126, 186, 119, 214, 38, 225, 105, 20, 99, 85, 33, 12, 125>>

\* the exclusive or of two 4-bit values
XorNibble ==
    <<<<0, 1, 2, 3, 4, 5, 6, 7, 8, 9, 10, 11, 12, 13, 14, 15>>,
      <<1, 0, 3, 2, 5, 4, 7, 6, 9, 8, 11, 10, 13, 12, 15, 14>>,
      <<2, 3, 0, 1, 6, 7, 4, 5, 10, 11, 8, 9, 14, 15, 12, 13>>,
      <<3, 2, 1, 0, 7, 6, 5, 4, 11, 10, 9, 8, 15, 14, 13, 12>>,
      <<4, 5, 6, 7, 0, 1, 2, 3, 12, 13, 14, 15, 8, 9, 10, 11>>,
      <<5, 4, 7, 6, 1, 0, 3, 2, 13, 12, 15, 14, 9, 8, 11, 10>>,
      <<6, 7, 4, 5, 2, 3, 0, 1, 14, 15, 12, 13, 10, 11, 8, 9>>,
      <<7, 6, 5, 4, 3, 2, 1, 0, 15, 14, 13, 12, 11, 10, 9, 8>>,
      <<8, 9, 10, 11, 12, 13, 14, 15, 0, 1, 2, 3, 4, 5, 6, 7>>,
      <<9, 8, 11, 10, 13, 12, 15, 14, 1, 0, 3, 2, 5, 4, 7, 6>>,
      <<10, 11, 8, 9, 14, 15, 12, 13, 2, 3, 0, 1, 6, 7, 4, 5>>,
      <<11, 10, 9, 8, 15, 14, 13, 12, 3, 2, 1, 0, 7, 6, 5, 4>>,
      <<12, 13, 14, 15, 8, 9, 10, 11, 4, 5, 6, 7, 0, 1, 2, 3>>,
      <<13, 12, 15, 14, 9, 8, 11, 10, 5, 4, 7, 6, 1, 0, 3, 2>>,
      <<14, 15, 12, 13, 10, 11, 8, 9, 6, 7, 4, 5, 2, 3, 0, 1>>,
      <<15, 14, 13, 12, 11, 10, 9, 8, 7, 6, 5, 4, 3, 2, 1, 0>>>>

\* the exclusive or of two bytes
Xor(a, b) ==
    16 * XorNibble[(a \div 16) + 1][(b \div 16) + 1]
    + XorNibble[(a % 16) + 1][(b % 16) + 1]

\* the 16 bytes of a block, each computed once
Bytes(f) == SubSeq(f, 1, 16)

XorSeq(x, y) == SubSeq([i \in 1..Len(x) |-> Xor(x[i], y[i])], 1, Len(x))

\* multiplication by x in GF(2^8) modulo x^8 + x^4 + x^3 + x + 1
xtime(a) == IF a >= 128 THEN Xor(2 * a - 256, 27) ELSE 2 * a

RECURSIVE GMul(_, _)
\* multiplication in GF(2^8)
GMul(a, b) ==
    IF b = 0 THEN 0
    ELSE Xor(IF b % 2 = 1 THEN a ELSE 0, GMul(xtime(a), b \div 2))

SubBytes(s) == Bytes([i \in 1..16 |-> SBox[s[i] + 1]])

InvSubBytes(s) == Bytes([i \in 1..16 |-> InvSBox[s[i] + 1]])

\* byte i of a block stands in row (i-1) % 4 and column (i-1) \div 4
ShiftRows(s) ==
    Bytes([i \in 1..16 |->
              LET r == (i - 1) % 4
                  c == (i - 1) \div 4
              IN  s[r + 4 * ((c + r) % 4) + 1]])

InvShiftRows(s) ==
    Bytes([i \in 1..16 |->
              LET r == (i - 1) % 4
                  c == (i - 1) \div 4
              IN  s[r + 4 * ((c + 4 - r) % 4) + 1]])

\* each column multiplied by the circulant matrix whose first row is m
MixColumns(s, m) ==
    Bytes([i \in 1..16 |->
              LET r == (i - 1) % 4
                  c == (i - 1) \div 4
                  term(j) == GMul(s[4 * c + j + 1], m[((j + 4 - r) % 4) + 1])
              IN  Xor(Xor(term(0), term(1)), Xor(term(2), term(3)))])

Mix == <<2, 3, 1, 1>>
InvMix == <<14, 11, 13, 9>>

Rcon == <<1, 2, 4, 8, 16, 32, 64, 128, 27, 54>>

RECURSIVE KeyExpansion(_)
\* the 44 words of the key schedule, as 176 bytes
KeyExpansion(w) ==
    IF Len(w) = 176 THEN w
    ELSE LET i == Len(w) \div 4
             prev == SubSeq(w, Len(w) - 3, Len(w))
             back == SubSeq(w, Len(w) - 15, Len(w) - 12)
             rot == <<prev[2], prev[3], prev[4], prev[1]>>
             t == IF i % 4 = 0
                  THEN XorSeq([j \in 1..4 |-> SBox[rot[j] + 1]],
                              <<Rcon[i \div 4], 0, 0, 0>>)
                  ELSE prev
         IN  KeyExpansion(w \o XorSeq(back, t))

AddRoundKey(s, w, r) == XorSeq(s, SubSeq(w, 16 * r + 1, 16 * r + 16))

\* one round of the cipher and one of its inverse, with round key r
Round(s, w, r) ==
    AddRoundKey(MixColumns(ShiftRows(SubBytes(s)), Mix), w, r)

InvRound(s, w, r) ==
    MixColumns(AddRoundKey(InvSubBytes(InvShiftRows(s)), w, r), InvMix)

RECURSIVE CipherStates(_, _)
\* the state after the initial round key and after each of the rounds 1..9
CipherStates(states, w) ==
    IF Len(states) = 10 THEN states
    ELSE CipherStates(
             Append(states, Round(states[Len(states)], w, Len(states))), w)

\* one block encrypted under the key schedule w: nine rounds and the last
\* one, which does not mix the columns
Cipher(block, w) ==
    LET states == CipherStates(<<AddRoundKey(block, w, 0)>>, w) IN
    AddRoundKey(ShiftRows(SubBytes(states[10])), w, 10)

RECURSIVE InvCipherStates(_, _)
\* the state after round key 10 and after each of the inverse rounds 9..1
InvCipherStates(states, w) ==
    IF Len(states) = 10 THEN states
    ELSE InvCipherStates(
             Append(states,
                    InvRound(states[Len(states)], w, 10 - Len(states))), w)

\* one block decrypted under the key schedule w
InvCipher(block, w) ==
    LET states == InvCipherStates(<<AddRoundKey(block, w, 10)>>, w) IN
    AddRoundKey(InvSubBytes(InvShiftRows(states[10])), w, 0)

RECURSIVE ecb_encrypt(_, _)
\* aes.py:25  cipher.encrypt in ECB mode: block by block
ecb_encrypt(data, w) ==
    IF data = <<>> THEN <<>>
    ELSE Cipher(SubSeq(data, 1, BlockSize), w)
         \o ecb_encrypt(SubSeq(data, BlockSize + 1, Len(data)), w)

RECURSIVE ecb_decrypt(_, _)
\* aes.py:53  cipher.decrypt in ECB mode, of a whole number of blocks
ecb_decrypt(data, w) ==
    IF data = <<>> THEN <<>>
    ELSE InvCipher(SubSeq(data, 1, BlockSize), w)
         \o ecb_decrypt(SubSeq(data, BlockSize + 1, Len(data)), w)

\* aes.py:8, 41  "QWR2Z1ZNM1laZVFFY3B3Ug=="
key_str_b64 ==
    <<81, 87, 82, 50, 90, 49, 90, 78, 77, 49, 108, 97,
      90, 86, 70, 70, 89, 51, 66, 51, 85, 103, 61, 61>>

\* aes.py:10-19, 42-46  the key: the base64 text decoded, read as UTF-8 and
\* encoded as UTF-8 again
aes_key == encode_utf8(decode_utf8(b64decode(key_str_b64)).text)

\* aes.py:22, 52  AES.new(key, AES.MODE_ECB)
cipher == KeyExpansion(aes_key)

\* aes.py:6-28  encrypt_aes
encrypt_aes(plaintext_text) ==
    decode_utf8(b64encode(ecb_encrypt(pad(encode_utf8(plaintext_text)),
                                      cipher))).text

\* aes.py:31-59  decrypt_aes
decrypt_aes(text) ==
    IF text = <<>>
    THEN Decoded_text(<<>>)
    ELSE LET ciphertext_bytes == b64decode(text) IN
         IF Len(ciphertext_bytes) % BlockSize # 0
         THEN Failed("ValueError")
         ELSE LET unpadded == unpad(ecb_decrypt(ciphertext_bytes, cipher)) IN
              IF unpadded.raised # "none"
              THEN Failed(unpadded.raised)
              ELSE decode_utf8(unpadded.bytes)

\* decrypt_aes has not run since the ciphertext was made
NotRun == [raised |-> "not run", text |-> <<>>]

\* a text to encrypt is at hand; the stored ciphertext is still empty
InitAes ==
    /\ InitProgram
    /\ category_list = <<>>
    /\ nodes = <<>>
    /\ plaintext \in Texts
    /\ ciphertext_b64 = <<>>
    /\ decrypted = NotRun

\* app_state.py:50  encrypt_aes(password)
Encrypt ==
    /\ ciphertext_b64 = <<>>
    /\ ciphertext_b64' = encrypt_aes(plaintext)
    /\ decrypted' = NotRun
    /\ UNCHANGED <<plaintext, pageVars, windowVars, loopVars, sessionVars,
                   historyVars, gatewayVars, treeVars, window_open>>

\* app_state.py:24  decrypt_aes of the stored text
Decrypt ==
    /\ decrypted = NotRun
    /\ decrypted' = decrypt_aes(ciphertext_b64)
    /\ UNCHANGED <<plaintext, ciphertext_b64, pageVars, windowVars, loopVars,
                   sessionVars, historyVars, gatewayVars, treeVars,
                   window_open>>

NextAes == Encrypt \/ Decrypt

SpecAes == InitAes /\ [][NextAes]_vars

(***************************************************************************)
(* Vocabulary of the properties: what a step did, read off the two states. *)
(***************************************************************************)
\* the event loop started the coroutine of kind t at the head of the queue
Ran(t) == ready # <<>> /\ Head(ready).t = t /\ ready' = Tail(ready)

\* the step sent an item-list request
Sent == Len(inflight') = Len(inflight) + 1

\* the request the step sent
SentRequest == inflight'[Len(inflight')]

\* the step handled the answer to request i
Answered(i) ==
    /\ i \in 1..Len(inflight)
    /\ Len(inflight') = Len(inflight) - 1
    /\ inflight' = RemoveAt(inflight, i)

\* the step put the answer's items and totals into the page state
Applied(req) ==
    LET items == ApiList(req.CategoryId, req.Key, req.PageIndex) IN
    /\ all_loaded_asset_items' = all_loaded_asset_items \o items
    /\ displayed_asset_items' =
          IF req.PageIndex = 1 THEN items ELSE displayed_asset_items \o items
    /\ total_pages_from_api' = ApiPageCount(req.CategoryId, req.Key)
    /\ total_count_from_api' = ApiCount(req.CategoryId, req.Key)

\* the step showed the failure and left the items alone
FailureShown ==
    /\ error_msg' = "Failed to load assets"
    /\ all_loaded_asset_items' = all_loaded_asset_items
    /\ displayed_asset_items' = displayed_asset_items
    /\ no_more_assets_to_load' = no_more_assets_to_load

\* the CategoryId the window's selection stands for
CurrentCategoryId ==
    IF asset_category_id_selected # "All" THEN asset_category_id_selected ELSE ""

\* the request belongs to a category or keyword the window has left
Superseded(req) ==
    req.CategoryId # CurrentCategoryId \/ req.Key # Strip(search_bar)

\* the items the catalogue holds for a context
ItemsOf(cid, key) ==
    {ApiList(cid, key, p)[k] : <<p, k>> \in
        {<<p, k>> \in (1..2) \X (1..2) : k <= Len(ApiList(cid, key, p))}}

\* the step started _load_assets_for_category with the flag clear
SetsFlag ==
    \/ Ran("load") /\ ~is_loading_more
    \/ Ran("lazy") /\ LazyLoadNeeded(PageState)
    \/ Ran("search") /\ asset_category_id_selected # None

C2_FlagReleasedOnEveryExit ==
    [][ /\ \A i \in 1..Len(inflight) :
              Answered(i) =>
                  /\ ~is_loading_more'
                  /\ Applied(inflight[i]) \/ error_msg' = "Failed to load assets"
        /\ SetsFlag /\ ~Sent =>
              /\ ~is_loading_more'
              /\ error_msg' \in {"Failed to load assets", "Config error"}
      ]_vars

\* a fetch has failed: the message is shown, the flag is clear, nothing pends
C2_Witness ==
    /\ error_msg = "Failed to load assets"
    /\ ~is_loading_more
    /\ current_page_index = 2
    /\ inflight = <<>>
    /\ ready = <<>>

C4_NoMoreIff ==
    seq.clean /\ seq.n >= 1 =>
        (no_more_assets_to_load <=>
            \/ seq.n >= ApiPageCount(seq.cid, seq.key)
            \/ ApiCount(seq.cid, seq.key) <= 0)

\* pages 1 and 2 of a two-page context were fetched in sequence
C4_Witness ==
    /\ seq.clean
    /\ seq.n = 2
    /\ no_more_assets_to_load
    /\ all_loaded_asset_items = <<1, 2, 3>>

(***************************************************************************)
(* C5  Keyword changes that follow each other within the debounce delay    *)
(* leave one timer pending, the one of the last change; the search is      *)
(* handed to the event loop only when the whole delay has passed since the *)
(* last change, no timer is left behind it, and the request it sends is    *)
(* for page 1 with the keyword the search field holds then.                *)
(***************************************************************************)
C5_DebounceOneFetchLastKeyword ==
    /\ [](/\ Len(timers) <= 1
          /\ timers # <<>> => /\ search_timer_handle = "pending"
                              /\ timers[1] = DebounceDelay - since_key)
    /\ [][ /\ Len(ready') > Len(ready) /\ ready'[Len(ready')].t = "search" =>
                /\ since_key = DebounceDelay
                /\ timers' = <<>>
           /\ Ran("search") /\ Sent =>
                /\ SentRequest.PageIndex = 1
                /\ SentRequest.Key = Strip(search_bar)
                /\ SentRequest.CategoryId = CurrentCategoryId
         ]_vars

\* a burst of keyword changes has settled on " k" with a category selected;
\* the delay has passed since the last of them and one timer is due
C5_Witness ==
    /\ burst = MaxBurst
    /\ since_key = DebounceDelay
    /\ timers = <<0>>
    /\ search_bar = " k"
    /\ asset_category_id_selected # None

C8_GuardedCallIsNoOp ==
    [][ Ran("load") /\ is_loading_more =>
            /\ Len(inflight') = Len(inflight)
            /\ UNCHANGED <<current_page_index, total_pages_from_api,
                           total_count_from_api, is_loading_more,
                           no_more_assets_to_load, all_loaded_asset_items,
                           displayed_asset_items>> ]_vars

\* a load is about to start while a fetch is pending and items are cached
C8_Witness ==
    /\ ready # <<>>
    /\ Head(ready).t = "load"
    /\ is_loading_more
    /\ all_loaded_asset_items # <<>>

(***************************************************************************)
(* C9  A request in flight is never withdrawn: it leaves only when its     *)
(* answer is handled; and the answer to a request whose category or        *)
(* keyword the window has left is handled like any other, its items and    *)
(* totals going into the page state.                                       *)
(***************************************************************************)
C9_SupersededAnswerApplied ==
    [][ /\ (\A i \in 1..Len(inflight) : ~Answered(i)) =>
              /\ Len(inflight') >= Len(inflight)
              /\ \A i \in 1..Len(inflight) :
                    [inflight'[i] EXCEPT !.behind = 0] =
                    [inflight[i] EXCEPT !.behind = 0]
        /\ \A i \in 1..Len(inflight) :
              Answered(i) /\ Superseded(inflight[i]) =>
                  \/ Applied(inflight[i]) /\ ~is_loading_more'
                  \/ FailureShown /\ ~is_loading_more'
      ]_vars

\* the cache holds an item that the selected category and keyword do not have
C9_Witness ==
    /\ asset_category_id_selected \in Categories
    /\ \E k \in 1..Len(all_loaded_asset_items) :
          all_loaded_asset_items[k] \notin
              ItemsOf(CurrentCategoryId, Strip(search_bar))

(***************************************************************************)
(* C10  At most one ClientSession is live at a time; one is created only   *)
(* when self.session is None or closed, and then no session is live; all   *)
(* _get_session calls since the last close returned the same session.      *)
(***************************************************************************)
C10_OneSharedSession ==
    /\ [](/\ Cardinality(LiveSessions) <= 1
          /\ Cardinality(acquired) <= 1
          /\ session # NoSession => LiveSessions = {session})
    /\ [][ Len(closed') > Len(closed) =>
              /\ session = NoSession \/ closed[session]
              /\ LiveSessions = {} ]_vars

\* after a close, two flows were handed the same second session
C10_Witness ==
    /\ Len(closed) = 2
    /\ session = 2
    /\ \A f \in Flows : flow[f].got = 2 /\ flow[f].pc = "idle"


(***************************************************************************)
(* C11  close() is idempotent.  A call of close that finds no open session *)
(* (never created, or closed before) changes neither self.session nor any  *)
(* ClientSession and returns at once; every call of close that finishes    *)
(* leaves self.session None and no ClientSession open; and a call that     *)
(* finishes directly after another one leaves the state that the first one *)
(* left.  close has no raise: a call finishes by going back to "idle".     *)
(***************************************************************************)
\* the step in which a call of close returns
CloseFinished ==
    \/ closes' > closes
    \/ \E f \in Flows : flow[f].pc = "wait_close" /\ flow'[f].pc = "idle"

C11_CloseIdempotent ==
    [][CloseFinished =>
         /\ session' = NoSession
         /\ LiveSessions' = {}
         /\ ~SessionOpen => UNCHANGED <<session, closed>>
         /\ closes >= 1 => UNCHANGED <<session, closed>>]_vars

\* two calls of close have finished in a row after a session was in use
C11_Witness ==
    /\ closes = 2
    /\ Len(closed) >= 1
    /\ session = NoSession
    /\ \A f \in Flows : flow[f].pc = "idle"

(***************************************************************************)
(* C18  No automatic retry.  A step sends at most one item-list request,   *)
(* and only a coroutine that an event of the user (a selection, a          *)
(* keystroke's timer, a scroll signal) has queued sends one.  The step     *)
(* that handles an answer, a failure included, and the step of a           *)
(* coroutine, one that fails at once included, send nothing more, queue    *)
(* no coroutine and start no timer: after a failed fetch nothing is        *)
(* pending that the failure caused.                                        *)
(***************************************************************************)
C18_NoAutomaticRetry ==
    [][/\ Len(inflight') <= Len(inflight) + 1
       /\ Sent => \E t \in {"load", "lazy", "search"} : Ran(t)
       /\ Len(inflight') < Len(inflight) =>
             /\ ready' = ready
             /\ timers' = timers
             /\ search_timer_handle' = search_timer_handle
       /\ (ready # <<>> /\ ready' = Tail(ready)) => timers' = timers]_vars

\* a fetch has failed and nothing is in flight, queued or scheduled
C18_Witness ==
    /\ error_msg = "Failed to load assets"
    /\ asset_category_id_selected # None
    /\ ~is_loading_more
    /\ inflight = <<>>
    /\ ready = <<>>
    /\ timers = <<>>

(***************************************************************************)
(* Vocabulary of the gateway properties: what the last call was.           *)
(***************************************************************************)
\* the last call entered _request
RequestRan ==
    /\ call.op # "none"
    /\ call.out.sends = 1 \/ call.resp.fault = "get_session"

\* the last call got an HTTP response
Responded == call.op # "none" /\ call.out.sends = 1 /\ call.resp.fault = "none"

\* the last call got a response with status 200 whose body is a JSON object
Decoded == Responded /\ call.resp.status = 200 /\ call.resp.body = "object"

\* the step is a call of the gateway
Called == call' # call

(***************************************************************************)
(* C12  With check_business_status set, an envelope with ErrorCode 401     *)
(* makes the call raise an exception of a class other than the one raised  *)
(* for a generic business error, and afterwards is_token_expired is True   *)
(* and is_system_admin is False.                                           *)
(***************************************************************************)
C12_TokenExpiredOwnKind ==
    (Decoded /\ call.check /\ call.resp.ErrorCode = <<401>>) =>
        /\ call.out.raised \notin {"none", "BusinessLogicException"}
        /\ is_token_expired = <<TRUE>>
        /\ is_system_admin = <<FALSE>>

(***************************************************************************)
(* C13  A call that detects ErrorCode 401 leaves the token None (so that   *)
(* is_logged_in is false) and is_token_expired True.                       *)
(***************************************************************************)
C13_ExpiryClearsToken ==
    [][(Called /\ call'.out.expiry) =>
          /\ token' = None
          /\ is_token_expired' = <<TRUE>>]_vars

(***************************************************************************)
(* C14  With check_business_status set and a status-200 response whose     *)
(* body is a JSON object, the call returns iff ErrorCode and StatusCode    *)
(* are both 200, and then it returns Result, or an empty object when       *)
(* Result is absent (get_category_tree goes on to filter it); when         *)
(* ErrorCode is not 401 and either code is not 200 or is missing, it       *)
(* raises BusinessLogicException carrying two codes, the ones of the       *)
(* envelope where present, and the message.                                *)
(***************************************************************************)
C14_ResultIffBothCodes200 ==
    (Decoded /\ call.check) =>
        LET r == call.resp
            success == r.ErrorCode = <<200>> /\ r.StatusCode = <<200>>
        IN  /\ call.out.raised = "none" <=> success
            /\ (success /\ call.op # "get_category_tree") =>
                  call.out.value =
                      IF r.Result = Unset THEN EmptyObject ELSE r.Result[1]
            /\ (~success /\ r.ErrorCode # <<401>>) =>
                  /\ call.out.raised = "BusinessLogicException"
                  /\ Len(call.out.codes) = 2
                  /\ r.ErrorCode # Unset => call.out.codes[1] = r.ErrorCode[1]
                  /\ r.StatusCode # Unset => call.out.codes[2] = r.StatusCode[1]
                  /\ r.MessageCode # Unset => call.out.msg = r.MessageCode[1]

\* a successful envelope without Result was answered with the empty object
C14_Witness ==
    /\ Decoded
    /\ call.check
    /\ call.op = "request"
    /\ call.resp.ErrorCode = <<200>>
    /\ call.resp.StatusCode = <<200>>
    /\ call.resp.Result = Unset
    /\ call.out.value = EmptyObject

(***************************************************************************)
(* C15  as stated: a response is classified as HTTPException iff its       *)
(* status is not a 2xx status.                                             *)
(***************************************************************************)
C15_TransportErrorIffNot2xx ==
    Responded =>
        (call.out.raised = "HTTPException" <=> call.resp.status \div 100 # 2)

(***************************************************************************)
(* C15  as amended: a response is classified as HTTPException, carrying    *)
(* its status, iff its status is not 200; a response with status 200 goes  *)
(* on to JSON parsing and envelope decoding, so that what the call ends    *)
(* with depends on the body.                                               *)
(***************************************************************************)
C15_TransportErrorIffNot200 ==
    Responded =>
        /\ call.out.raised = "HTTPException" <=> call.resp.status # 200
        /\ call.resp.status # 200 => call.out.codes = <<call.resp.status>>
        /\ (call.resp.status = 200 /\ call.resp.body \in
                {"content_type", "malformed"}) =>
               call.out.raised = "DataParsingException"

\* a response with the 2xx status 204 was classified as HTTPException
C15_Witness ==
    /\ Responded
    /\ call.resp.status = 204
    /\ call.out.raised = "HTTPException"

(***************************************************************************)
(* C16  A status-200 response whose body is not a JSON object (wrong       *)
(* content type, malformed text, or JSON that is not an object) makes the  *)
(* call raise DataParsingException and nothing else.                       *)
(***************************************************************************)
C16_UnparseableIsParsingError ==
    (Responded /\ call.resp.status = 200 /\ call.resp.body # "object") =>
        call.out.raised = "DataParsingException"

(***************************************************************************)
(* C17  Whatever fails in _request reaches the caller as one of the        *)
(* gateway's exception classes, and a DataManagerError that wraps another  *)
(* fault names that fault as its cause: nothing else escapes.              *)
(***************************************************************************)
C17_EveryFailureIsTyped ==
    (RequestRan /\ call.out.raised # "none") =>
        /\ call.out.raised \in {"HTTPException", "DataParsingException",
                                "BusinessLogicException", "TokenExpiredError",
                                "DataManagerError"}
        /\ call.out.raised = "DataManagerError" => call.out.cause # "none"

(***************************************************************************)
(* C19  Once is_token_expired is True, every category-list and item-list   *)
(* request that is sent, for either tab, goes to the Free variant of the   *)
(* endpoint.                                                               *)
(***************************************************************************)
C19_FreeEndpointAfterExpiry ==
    [][(/\ is_token_expired = <<TRUE>>
        /\ Called
        /\ call'.op \in {"get_category_tree", "get_asset_list"}
        /\ call'.out.sends = 1) =>
          call'.url \in {"CategoryListUrlFree",
                         "CategoryItemContentUrlFree"}]_vars

(***************************************************************************)
(* Vocabulary of the tree property: the records of a payload are named by  *)
(* their paths, the positions to follow from the top-level list.           *)
(***************************************************************************)
\* the paths of the records of a payload
RECURSIVE Paths(_)
Paths(payload) ==
    UNION {{<<i>>} \union
           {<<i>> \o q :
               q \in IF payload[i].CategoryLists = Unset
                     THEN {}
                     ELSE Paths(payload[i].CategoryLists[1])} :
           i \in 1..Len(payload)}

\* the record at a path
RECURSIVE RecordAt(_, _)
RecordAt(payload, path) ==
    IF Len(path) = 1
    THEN payload[path[1]]
    ELSE RecordAt(payload[path[1]].CategoryLists[1], Tail(path))

\* the places of node n among the children of node m
PlacesIn(m, n) ==
    {k \in 1..Len(nodes[m].children) : nodes[m].children[k] = n}

\* the path that leads from the root's children to node n, following the
\* parent references upwards
RECURSIVE PathOf(_)
PathOf(n) ==
    IF n = Root
    THEN <<>>
    ELSE PathOf(nodes[n].parent) \o
         <<CHOOSE k \in PlacesIn(nodes[n].parent, n) : TRUE>>

(***************************************************************************)
(* C20  The tree built from a payload has one node per record and the      *)
(* root: every node but the root has a parent reference to an earlier      *)
(* node, stands exactly once among that node's children and among no       *)
(* other node's, so that none is orphaned; following the children from     *)
(* the root, the k-th child of the node of a record (of the root) holds    *)
(* the k-th sub-record of that record (the k-th top-level record), which   *)
(* is parent linkage and source order; and no two nodes hold the same      *)
(* record.                                                                 *)
(***************************************************************************)
C20_TreeMirrorsPayload ==
    nodes # <<>> =>
        LET Items == 2..Len(nodes) IN
        /\ nodes[Root].parent = NoParent
        /\ nodes[Root].data = RootData
        /\ Len(nodes) = 1 + Cardinality(Paths(category_list))
        /\ \A n \in Items :
              /\ nodes[n].parent \in 1..(n - 1)
              /\ \A m \in 1..Len(nodes) :
                    Cardinality(PlacesIn(m, n)) =
                        IF m = nodes[n].parent THEN 1 ELSE 0
        /\ PlacesIn(Root, Root) = {}
        /\ \A n \in Items :
              /\ PathOf(n) \in Paths(category_list)
              /\ nodes[n].data = RecordAt(category_list, PathOf(n))
        /\ \A n1, n2 \in Items : PathOf(n1) = PathOf(n2) => n1 = n2

\* the tree root -> A -> B of a record A that holds a record B, beside a
\* second top-level record
C20_Witness ==
    /\ Len(category_list) = 2
    /\ sub_items(category_list[1]) # <<>>
    /\ Len(nodes) = 4
    /\ nodes[Root].children = <<2, 4>>
    /\ nodes[2].children = <<3>>
    /\ nodes[3].parent = 2

C30_SelectionIssuesOneFetch ==
    [][(/\ asset_category_id_selected' # asset_category_id_selected
        /\ asset_category_id_selected' # None) =>
          /\ ready' = Append(ready, Task("load", asset_category_id_selected', 1))
          /\ timers' = timers
          /\ search_timer_handle' = search_timer_handle]_vars

(***************************************************************************)
(* C23  A page fetch started by the window for a configured asset type     *)
(* sends exactly one item-list request through the gateway, to an          *)
(* item-list URL of that asset type.                                       *)
(***************************************************************************)
C23_WindowFetchSendsOneRequest ==
    [][(Called /\ call'.op = "_load_assets_for_category") =>
          /\ call'.out.sends = 1
          /\ call'.url \in {"CategoryItemContentUrl",
                             "CategoryItemContentUrlFree",
                             "CategoryItemContentUrlPrivate"}]_vars

(***************************************************************************)
(* C27  After AppState.login with a non-empty token, and before any        *)
(* further 401, the expired flag is not set, and a Public-scope request of *)
(* a user who is no administrator does not go to the free endpoint.        *)
(***************************************************************************)
C27_LoginClearsExpiry ==
    [][(auth_op = "login" /\ token # None) =>
          /\ is_token_expired # <<TRUE>>
          /\ (/\ Called
              /\ call'.op \in {"get_category_tree", "get_asset_list"}
              /\ call'.tab = "Public"
              /\ call'.out.sends = 1
              /\ is_system_admin = <<FALSE>>) =>
                call'.url \notin {"CategoryListUrlFree",
                                  "CategoryItemContentUrlFree"}]_vars

(***************************************************************************)
(* C29  Before any login or token expiry, get_category_tree and            *)
(* get_asset_list for the Public scope of a configured asset type find the *)
(* expired flag and the admin flag defined and false, select the free URL  *)
(* and send one request.                                                   *)
(***************************************************************************)
C29_InitialPublicCallIsSent ==
    [][(/\ auth_op = "none"
        /\ Called
        /\ call'.op \in {"get_category_tree", "get_asset_list"}
        /\ call'.tab = "Public"
        /\ call'.asset_type_id \in AssetTypeIds) =>
          /\ is_token_expired = <<FALSE>>
          /\ is_system_admin = <<FALSE>>
          /\ call'.out.sends = 1
          /\ call'.url \in {"CategoryListUrlFree",
                             "CategoryItemContentUrlFree"}]_vars

(***************************************************************************)
(* C22  After logout the token and the user profile are None; the username *)
(* and the password, in memory and in the persisted settings, are cleared  *)
(* when the remember flag is not set and are left as they were when it is  *)
(* set.                                                                    *)
(***************************************************************************)
C22_LogoutClearsUnlessRemembered ==
    [][(auth_op' = "logout" /\ call' = call) =>
          /\ token' = None
          /\ user_info' = None
          /\ IF remember_me = <<TRUE>>
             THEN /\ username' = username
                  /\ password' = password
                  /\ settings' = settings
             ELSE /\ username' = None
                  /\ password' = None
                  /\ settings'.username = ""
                  /\ settings'.password = ""]_vars

\* a user who saved credentials with the remember flag set has logged out
C22_Witness ==
    /\ auth_op = "logout"
    /\ remember_me = <<TRUE>>
    /\ username \in Usernames
    /\ password \in Passwords \ {""}
    /\ settings.password = Sealed(password)
    /\ token = None

(***************************************************************************)
(* C21  decrypt_aes(encrypt_aes(s)) = s for every text s, the empty one    *)
(* and those with multi-byte characters included, and decrypt_aes of the   *)
(* empty text is the empty text, without an exception.                     *)
(***************************************************************************)
C21_DecryptInvertsEncrypt ==
    decrypted # NotRun =>
        IF ciphertext_b64 = <<>>
        THEN decrypted = Decoded_text(<<>>)
        ELSE decrypted = Decoded_text(plaintext)

\* a text with a multi-byte character whose UTF-8 form fills a block, so
\* that the padding is a block of its own, has been encrypted and decrypted
C21_Witness ==
    /\ \E i \in 1..Len(plaintext) : plaintext[i] > 127
    /\ Len(encode_utf8(plaintext)) = BlockSize
    /\ Len(b64decode(ciphertext_b64)) = 2 * BlockSize
    /\ decrypted = Decoded_text(plaintext)

(***************************************************************************)
(* C28  Once on_shutdown has cleaned the window up and every close() it    *)
(* scheduled has finished, no session is live, in that state and in every  *)
(* later one: no timer, scheduled fetch or request in flight brings a      *)
(* session back.                                                           *)
(***************************************************************************)
\* a close() coroutine is scheduled, waits for the lock or is closing
ClosePending ==
    \/ \E i \in 1..Len(ready) : ready[i].t = "close"
    \/ \E f \in Flows : flow[f].pc \in {"wait_close", "closing"}

C28_NoSessionAfterCleanUp ==
    (~window_open /\ ~ClosePending) => LiveSessions = {}

\* the window was shut down with a session live; the closes have finished
\* and the session is closed
C28_Witness ==
    /\ ~window_open
    /\ ~ClosePending
    /\ closed # <<>>
    /\ LiveSessions = {}

====
